---- MODULE Spec2Model ----
(***************************************************************************)
(* Model of the image-definition compiler: the customization merge         *)
(* (osCustomizations), the per-image-type construction functions of the    *)
(* fedora and rhel9 families (pkg/distro/.../images.go), the OSTree commit *)
(* derivation helpers, and the build driver (cmd/build: makeManifest and   *)
(* the content resolvers).                                                 *)
(*                                                                         *)
(* Go values are modelled as follows: a string is a TLA+ string, a slice   *)
(* is a sequence, a struct is a record, a pointer is a sequence of length  *)
(* zero (nil) or one (the pointee), a Go map is a function whose iteration *)
(* order is chosen by the runtime.                                         *)
(***************************************************************************)
EXTENDS Naturals, Sequences, FiniteSets, TLC

VARIABLES pc, run, inp, img, commits, mf, first, call

vars == <<pc, run, inp, img, commits, mf, first, call>>

----------------------------------------------------------------------------
(* Pointers and slices *)

Nil == <<>>

Some(v) == <<v>>

IsNil(p) == Len(p) = 0

Deref(p) == p[1]

Range(s) == {s[i] : i \in DOMAIN s}

\* strings.Join(elems, " ")
RECURSIVE JoinSpace(_)
JoinSpace(elems) ==
    IF Len(elems) = 0 THEN ""
    ELSE IF Len(elems) = 1 THEN elems[1]
    ELSE elems[1] \o " " \o JoinSpace(Tail(elems))

\* All sequences without repetition over exactly the elements of S: the
\* orders in which the Go runtime may iterate over a map with key set S.
RECURSIVE Orders(_)
Orders(S) ==
    IF S = {} THEN {<<>>}
    ELSE UNION {{<<x>> \o o : o \in Orders(S \ {x})} : x \in S}

----------------------------------------------------------------------------
(* OSTree parent / payload commit derivation *)

\* ostree.SourceSpec
SourceSpec(url, ref, rhsm) == [URL |-> url, Ref |-> ref, RHSM |-> rhsm]

ZeroSourceSpec == SourceSpec("", "", FALSE)

ErrCommitURLRequired == "ostree commit URL required"

fedora_makeOSTreeParentCommit_ignoresImageRef(options, defaultRef) ==
    IF IsNil(options) THEN [parent |-> Nil, ref |-> defaultRef]
    ELSE LET o == Deref(options)
             commitRef == defaultRef
         IN  IF o.URL = "" THEN [parent |-> Nil, ref |-> commitRef]
             ELSE LET parentRef == IF o.ParentRef = "" THEN commitRef ELSE o.ParentRef
                  IN  [parent |-> Some(SourceSpec(o.URL, parentRef, o.RHSM)),
                       ref |-> commitRef]

\* fedora: makeOSTreeParentCommit(options, defaultRef) (parentCommit, commitRef)
fedora_makeOSTreeParentCommit(options, defaultRef) ==
    IF IsNil(options) THEN [parent |-> Nil, ref |-> defaultRef]
    ELSE LET o == Deref(options)
             commitRef == IF o.ImageRef # "" THEN o.ImageRef ELSE defaultRef
         IN  IF o.URL = "" THEN [parent |-> Nil, ref |-> commitRef]
             ELSE LET parentRef == IF o.ParentRef = "" THEN commitRef ELSE o.ParentRef
                  IN  [parent |-> Some(SourceSpec(o.URL, parentRef, o.RHSM)),
                       ref |-> commitRef]

rhel9_makeOSTreeParentCommit_parentWithoutURL(options, defaultRef) ==
    IF IsNil(options) THEN [parent |-> Nil, ref |-> defaultRef]
    ELSE LET o == Deref(options)
             commitRef == IF o.ImageRef # "" THEN o.ImageRef ELSE defaultRef
         IN  IF o.URL = "" /\ o.ParentRef = "" THEN [parent |-> Nil, ref |-> commitRef]
             ELSE LET parentRef == IF o.ParentRef = "" THEN commitRef ELSE o.ParentRef
                  IN  [parent |-> Some(SourceSpec(o.URL, parentRef, o.RHSM)),
                       ref |-> commitRef]

\* rhel9: makeOSTreeParentCommit(options, defaultRef) (parentCommit, commitRef)
rhel9_makeOSTreeParentCommit(options, defaultRef) ==
    IF IsNil(options) THEN [parent |-> Nil, ref |-> defaultRef]
    ELSE LET o == Deref(options)
             commitRef == IF o.ImageRef # "" THEN o.ImageRef ELSE defaultRef
         IN  IF o.URL = "" THEN [parent |-> Nil, ref |-> commitRef]
             ELSE LET parentRef == IF o.ParentRef = "" THEN commitRef ELSE o.ParentRef
                  IN  [parent |-> Some(SourceSpec(o.URL, parentRef, o.RHSM)),
                       ref |-> commitRef]

fedora_makeOSTreePayloadCommit_defaultRefOnly(options, defaultRef) ==
    IF IsNil(options) \/ Deref(options).URL = ""
    THEN [spec |-> ZeroSourceSpec, err |-> ErrCommitURLRequired]
    ELSE LET o == Deref(options)
         IN  [spec |-> SourceSpec(o.URL, defaultRef, o.RHSM), err |-> ""]

\* fedora: makeOSTreePayloadCommit(options, defaultRef) (ostree.SourceSpec, error)
fedora_makeOSTreePayloadCommit(options, defaultRef) ==
    IF IsNil(options) \/ Deref(options).URL = ""
    THEN [spec |-> ZeroSourceSpec, err |-> ErrCommitURLRequired]
    ELSE LET o == Deref(options)
             commitRef == IF o.ImageRef # "" THEN o.ImageRef ELSE defaultRef
         IN  [spec |-> SourceSpec(o.URL, commitRef, o.RHSM), err |-> ""]

\* rhel9: makeOSTreePayloadCommit(options, defaultRef) (ostree.SourceSpec, error)
rhel9_makeOSTreePayloadCommit(options, defaultRef) ==
    IF IsNil(options) \/ Deref(options).URL = ""
    THEN [spec |-> ZeroSourceSpec, err |-> ErrCommitURLRequired]
    ELSE LET o == Deref(options)
             commitRef == IF o.ImageRef # "" THEN o.ImageRef ELSE defaultRef
         IN  [spec |-> SourceSpec(o.URL, commitRef, o.RHSM), err |-> ""]

makeOSTreeParentCommit(family, options, defaultRef) ==
    IF family = "fedora" THEN fedora_makeOSTreeParentCommit(options, defaultRef)
    ELSE rhel9_makeOSTreeParentCommit(options, defaultRef)

makeOSTreePayloadCommit(family, options, defaultRef) ==
    IF family = "fedora" THEN fedora_makeOSTreePayloadCommit(options, defaultRef)
    ELSE rhel9_makeOSTreePayloadCommit(options, defaultRef)

----------------------------------------------------------------------------
(* The deterministic OSTree resolver of the build driver *)

\* crypto/sha256.Sum256 rendered with %x: the digest of a byte string,
\* taken as collision free (distinct inputs have distinct digests).
Sum256Hex(bytes) == "sha256:" \o bytes

SecretsRHSM == "org.osbuild.rhsm.consumer"

resolveCommit_hashesURLOnly(commitSource) ==
    [Ref |-> commitSource.Ref,
     URL |-> commitSource.URL,
     Checksum |-> Sum256Hex(commitSource.URL),
     Secrets |-> IF commitSource.RHSM THEN SecretsRHSM ELSE ""]

\* resolveCommit(commitSource ostree.SourceSpec) ostree.CommitSpec
resolveCommit(commitSource) ==
    [Ref |-> commitSource.Ref,
     URL |-> commitSource.URL,
     Checksum |-> Sum256Hex(commitSource.URL \o commitSource.Ref),
     Secrets |-> IF commitSource.RHSM THEN SecretsRHSM ELSE ""]

----------------------------------------------------------------------------
(* Strings *)

HasPrefix(s, prefix) ==
    Len(s) >= Len(prefix) /\ SubSeq(s, 1, Len(prefix)) = prefix

HasSuffix(s, suffix) ==
    Len(s) >= Len(suffix) /\ SubSeq(s, Len(s) - Len(suffix) + 1, Len(s)) = suffix

\* strconv.Itoa for one decimal digit
Itoa(n) ==
    CASE n = 0 -> "0" [] n = 1 -> "1" [] n = 2 -> "2" [] n = 3 -> "3" [] n = 4 -> "4"
      [] n = 5 -> "5" [] n = 6 -> "6" [] n = 7 -> "7" [] n = 8 -> "8" [] n = 9 -> "9"

DigitValue(ch) ==
    CASE ch = "0" -> 0 [] ch = "1" -> 1 [] ch = "2" -> 2 [] ch = "3" -> 3 [] ch = "4" -> 4
      [] ch = "5" -> 5 [] ch = "6" -> 6 [] ch = "7" -> 7 [] ch = "8" -> 8 [] ch = "9" -> 9

\* The dotted-decimal components of a release string: "9.2" is <<9, 2>>.
RECURSIVE VersionParts(_, _, _)
VersionParts(s, i, acc) ==
    IF i > Len(s) THEN <<acc>>
    ELSE IF SubSeq(s, i, i) = "." THEN <<acc>> \o VersionParts(s, i + 1, 0)
    ELSE VersionParts(s, i + 1, acc * 10 + DigitValue(SubSeq(s, i, i)))

\* The rolling release token ("9-stream"): not a dotted-decimal string.
IsRolling(version) == HasSuffix(version, "-stream")

\* Component i of a parsed version, missing components counting as 0.
PartAt(parts, i) == IF i <= Len(parts) THEN parts[i] ELSE 0

RECURSIVE PartsLess(_, _, _)
PartsLess(a, b, i) ==
    IF i > Len(a) /\ i > Len(b) THEN FALSE
    ELSE IF PartAt(a, i) # PartAt(b, i) THEN PartAt(a, i) < PartAt(b, i)
    ELSE PartsLess(a, b, i + 1)

\* common.VersionLessThan(a, b): a is older than b, in the total order over
\* dotted-decimal release strings in which the rolling token is newest.
VersionLessThan(a, b) ==
    IF IsRolling(a) THEN FALSE
    ELSE IF IsRolling(b) THEN TRUE
    ELSE PartsLess(VersionParts(a, 1, 0), VersionParts(b, 1, 0), 1)

----------------------------------------------------------------------------
(* Blueprint customizations and their accessors *)

\* blueprint.Customizations with no customization set
ZeroCustomizations ==
    [Kernel |-> Nil, User |-> <<>>, Group |-> <<>>, Firewall |-> Nil,
     Locale |-> Nil, Hostname |-> Nil, Timezone |-> Nil, OpenSCAP |-> Nil,
     Directories |-> <<>>, Files |-> <<>>, Repositories |-> <<>>,
     Filesystem |-> <<>>, Ignition |-> Nil, FDO |-> Nil,
     InstallationDevice |-> ""]

\* (*Customizations).GetKernel: the kernel customization, named "kernel"
\* when the blueprint names none.
GetKernel(c) ==
    LET name == IF IsNil(c.Kernel) THEN "" ELSE Deref(c.Kernel).Name
        app == IF IsNil(c.Kernel) THEN "" ELSE Deref(c.Kernel).Append
    IN  [Name |-> IF name = "" THEN "kernel" ELSE name, Append |-> app]

\* (*Customizations).GetPrimaryLocale: (language, keyboard)
GetPrimaryLocale(c) ==
    IF IsNil(c.Locale) THEN [language |-> Nil, keyboard |-> Nil]
    ELSE LET l == Deref(c.Locale)
         IN  [language |-> IF Len(l.Languages) = 0 THEN Nil ELSE Some(l.Languages[1]),
              keyboard |-> l.Keyboard]

\* (*Customizations).GetTimezoneSettings: (timezone, ntpServers)
GetTimezoneSettings(c) ==
    IF IsNil(c.Timezone) THEN [timezone |-> Nil, ntpServers |-> <<>>]
    ELSE [timezone |-> Deref(c.Timezone).Timezone,
          ntpServers |-> Deref(c.Timezone).NTPServers]

\* users.UsersFromBP
UsersFromBP(bpUsers) ==
    [i \in DOMAIN bpUsers |-> [Name |-> bpUsers[i].name, Key |-> bpUsers[i].key]]

\* users.GroupsFromBP
GroupsFromBP(bpGroups) ==
    [i \in DOMAIN bpGroups |-> [Name |-> bpGroups[i].name, GID |-> bpGroups[i].gid]]

\* fsnode path validation: a path must be absolute.
PathOK(path) == HasPrefix(path, "/")

\* blueprint.DirectoryCustomizationsToFsNodeDirectories
DirectoryCustomizationsToFsNodeDirectories(dirs) ==
    IF \E i \in DOMAIN dirs : ~PathOK(dirs[i].Path)
    THEN [nodes |-> <<>>, err |-> "invalid directory customization"]
    ELSE [nodes |-> [i \in DOMAIN dirs |-> [kind |-> "dir", path |-> dirs[i].Path]],
          err |-> ""]

\* blueprint.FileCustomizationsToFsNodeFiles
FileCustomizationsToFsNodeFiles(files) ==
    IF \E i \in DOMAIN files : ~PathOK(files[i].Path)
    THEN [nodes |-> <<>>, err |-> "invalid file customization"]
    ELSE [nodes |-> [i \in DOMAIN files |->
                        [kind |-> "file", path |-> files[i].Path, data |-> files[i].Data]],
          err |-> ""]

\* (*Customizations).GetRepositories: the custom repositories, validated
GetRepositories(c) ==
    IF \E i \in DOMAIN c.Repositories : c.Repositories[i].Id = ""
    THEN [repos |-> <<>>, err |-> "repository ID is required"]
    ELSE [repos |-> c.Repositories, err |-> ""]

\* RepositoryCustomization.getFilename
RepoFilename(repo) ==
    IF repo.Filename = "" THEN repo.Id \o ".repo"
    ELSE IF HasSuffix(repo.Filename, ".repo") THEN repo.Filename
    ELSE repo.Filename \o ".repo"

GPGKeyPath(repo, idx) == "/etc/pki/rpm-gpg/RPM-GPG-KEY-" \o repo.Id \o "-" \o Itoa(idx)

\* The rpmmd.RepoConfig of a custom repository, each inline key replaced by
\* the path of its materialized key file.
CustomRepoToRepoConfig(repo) ==
    [Id |-> repo.Id,
     GPGKeys |-> [k \in DOMAIN repo.GPGKeys |->
                     IF repo.GPGKeys[k].Inline
                     THEN "file://" \o GPGKeyPath(repo, k - 1)
                     ELSE repo.GPGKeys[k].Data]]

\* The key files of one repository, in key order.
RECURSIVE RepoKeyFiles(_, _)
RepoKeyFiles(repo, k) ==
    IF k > Len(repo.GPGKeys) THEN <<>>
    ELSE (IF repo.GPGKeys[k].Inline
          THEN <<[kind |-> "file", path |-> GPGKeyPath(repo, k - 1),
                  data |-> repo.GPGKeys[k].Data]>>
          ELSE <<>>) \o RepoKeyFiles(repo, k + 1)

RECURSIVE AllKeyFiles(_)
AllKeyFiles(repos) ==
    IF Len(repos) = 0 THEN <<>>
    ELSE RepoKeyFiles(Head(repos), 1) \o AllKeyFiles(Tail(repos))

\* The repositories of one file name, in blueprint order.
RECURSIVE ReposOfFile(_, _)
ReposOfFile(repos, filename) ==
    IF Len(repos) = 0 THEN <<>>
    ELSE (IF RepoFilename(Head(repos)) = filename
          THEN <<CustomRepoToRepoConfig(Head(repos))>> ELSE <<>>)
         \o ReposOfFile(Tail(repos), filename)

\* blueprint.RepoCustomizationsToRepoConfigAndGPGKeyFiles: the map from repo
\* file name to its repositories, and the key files of the inline keys.
RepoCustomizationsToRepoConfigAndGPGKeyFiles(repos) ==
    [yumRepos |-> [f \in {RepoFilename(repos[i]) : i \in DOMAIN repos} |->
                      ReposOfFile(repos, f)],
     gpgKeyFiles |-> AllKeyFiles(repos),
     err |-> ""]

\* osbuild.NewYumReposStageOptions
NewYumReposStageOptions(filename, repos) == [Filename |-> filename, Repos |-> repos]

\* The iteration orders of "for filename, repos := range yumRepos" for the
\* custom repositories of c: every order of the map's keys.
MapOrders(c) ==
    Orders({RepoFilename(c.Repositories[i]) : i \in DOMAIN c.Repositories})

----------------------------------------------------------------------------
(* Image configuration and the normalized OS customizations *)

\* distro.ImageConfig with no default set
ZeroImageConfig ==
    [GPGKeyFiles |-> <<>>, ExcludeDocs |-> Nil, EnabledServices |-> <<>>,
     DisabledServices |-> <<>>, DefaultTarget |-> Nil, Firewall |-> Nil,
     Locale |-> Nil, Keyboard |-> Nil, Timezone |-> Nil,
     TimeSynchronization |-> Nil, NoSElinux |-> Nil, YUMRepos |-> <<>>]

\* manifest.OSCustomizations{}
ZeroOSCustomizations ==
    [KernelName |-> "", KernelOptionsAppend |-> <<>>,
     ExtraBasePackages |-> <<>>, ExcludeBasePackages |-> <<>>, ExtraBaseRepos |-> <<>>,
     Containers |-> <<>>, GPGKeyFiles |-> <<>>, ExcludeDocs |-> FALSE,
     Groups |-> <<>>, Users |-> <<>>,
     EnabledServices |-> <<>>, DisabledServices |-> <<>>, DefaultTarget |-> "",
     Firewall |-> Nil, Language |-> "", Keyboard |-> Nil, X11KeymapLayouts |-> <<>>,
     Hostname |-> "", Timezone |-> "", NTPServers |-> <<>>, LeapSecTZ |-> Nil,
     SElinux |-> "", OpenSCAPConfig |-> Nil, FactAPIType |-> Nil,
     Directories |-> <<>>, Files |-> <<>>, YUMRepos |-> <<>>, Subscription |-> Nil]

\* osbuild.FirewallStageOptions
FirewallStageOptions(ports, enabled, disabled, zones) ==
    [Ports |-> ports, EnabledServices |-> enabled, DisabledServices |-> disabled,
     Zones |-> zones]

\* osbuild.ChronyConfigServer{Hostname: server} for each user server
ChronyServers(ntpServers) == [i \in DOMAIN ntpServers |-> [Hostname |-> ntpServers[i]]]

\* oscap.DefaultFedoraDatastream()
DefaultFedoraDatastream == "/usr/share/xml/scap/ssg/content/ssg-fedora-ds.xml"

\* oscap.DefaultRHEL9Datastream(isRHEL)
DefaultRHEL9Datastream(isRHEL) ==
    IF isRHEL THEN "/usr/share/xml/scap/ssg/content/ssg-rhel9-ds.xml"
    ELSE "/usr/share/xml/scap/ssg/content/ssg-cs9-ds.xml"

\* osbuild.NewOscapRemediationStageOptions
NewOscapRemediationStageOptions(datastream, profileID) ==
    [Datastream |-> datastream, ProfileID |-> profileID]

\* The yum repo stages appended in map iteration order.
YumReposInOrder(yumRepos, order) ==
    [i \in DOMAIN order |-> NewYumReposStageOptions(order[i], yumRepos[order[i]])]

----------------------------------------------------------------------------
(* osCustomizations: the customization merge of each family.  The result   *)
(* is the OSCustomizations value, or the panic that aborted the call.      *)
(* order is the order in which the runtime iterates over the yumRepos map. *)

Panicked(msg) == [panic |-> msg, osc |-> ZeroOSCustomizations]

Returned(osc) == [panic |-> "", osc |-> osc]

fedora_kernelOptions_userReplacesDefault(t, c) ==
    IF t.bootable \/ t.rpmOstree
    THEN IF GetKernel(c).Append # "" THEN <<GetKernel(c).Append>>
         ELSE IF t.kernelOptions # "" THEN <<t.kernelOptions>> ELSE <<>>
    ELSE <<>>

\* fedora: osc.KernelOptionsAppend of a bootable or rpmOstree image type:
\* the image type's default append string, then the blueprint's, each only
\* when not empty.
fedora_kernelOptions(t, c) ==
    IF t.bootable \/ t.rpmOstree
    THEN (IF t.kernelOptions # "" THEN <<t.kernelOptions>> ELSE <<>>)
         \o (IF GetKernel(c).Append # "" THEN <<GetKernel(c).Append>> ELSE <<>>)
    ELSE <<>>

\* rhel9: osc.KernelOptionsAppend
rhel9_kernelOptions(t, c) ==
    IF t.bootable \/ t.rpmOstree
    THEN (IF t.kernelOptions # "" THEN <<t.kernelOptions>> ELSE <<>>)
         \o (IF GetKernel(c).Append # "" THEN <<GetKernel(c).Append>> ELSE <<>>)
    ELSE <<>>

\* fedora: osc.Users, left empty in the payload of an installer
fedora_payloadUsers(t, c) == IF ~t.bootISO THEN UsersFromBP(c.User) ELSE <<>>

\* fedora: osc.Groups
fedora_payloadGroups(t, c) == IF ~t.bootISO THEN GroupsFromBP(c.Group) ELSE <<>>

rhel9_payloadUsers_alsoForInstallers(t, c) == UsersFromBP(c.User)

\* rhel9: osc.Users
rhel9_payloadUsers(t, c) == IF ~t.bootISO THEN UsersFromBP(c.User) ELSE <<>>

\* rhel9: osc.Groups
rhel9_payloadGroups(t, c) == IF ~t.bootISO THEN GroupsFromBP(c.Group) ELSE <<>>

\* fedora: osc.Firewall, set only from the blueprint's firewall
fedora_firewall(imageConfig, c) ==
    IF IsNil(c.Firewall) THEN Nil
    ELSE LET fw == Deref(c.Firewall)
         IN  Some(FirewallStageOptions(fw.Ports,
                    IF IsNil(fw.Services) THEN <<>> ELSE Deref(fw.Services).Enabled,
                    IF IsNil(fw.Services) THEN <<>> ELSE Deref(fw.Services).Disabled,
                    <<>>))

\* rhel9: osc.Firewall, the default configuration's unless the blueprint
\* has a firewall
rhel9_firewall(imageConfig, c) ==
    IF IsNil(c.Firewall) THEN imageConfig.Firewall
    ELSE LET fw == Deref(c.Firewall)
         IN  Some(FirewallStageOptions(fw.Ports,
                    IF IsNil(fw.Services) THEN <<>> ELSE Deref(fw.Services).Enabled,
                    IF IsNil(fw.Services) THEN <<>> ELSE Deref(fw.Services).Disabled,
                    [i \in DOMAIN fw.Zones |->
                        [Name |-> Deref(fw.Zones[i].Name),
                         Sources |-> fw.Zones[i].Sources]]))

\* Keyboard merge that takes the default keymap only when the user gave no
\* language either
Keyboard_defaultOnlyWithoutLanguage(imageConfig, locale) ==
    IF ~IsNil(locale.keyboard) THEN locale.keyboard
    ELSE IF ~IsNil(imageConfig.Keyboard) /\ IsNil(locale.language)
         THEN Some(Deref(imageConfig.Keyboard).Keymap)
    ELSE Nil

\* osCustomizations: the keyboard is the user's, or else the keymap of the
\* default keyboard.
Keyboard(imageConfig, locale) ==
    IF ~IsNil(locale.keyboard) THEN locale.keyboard
    ELSE IF ~IsNil(imageConfig.Keyboard) THEN Some(Deref(imageConfig.Keyboard).Keymap)
    ELSE Nil

\* Kernel options that hold "rw" on every release
rhel9_sysrootKernelOptions_always(osVersion) ==
    <<"modprobe.blacklist=vc4", "rw">>

\* edgeRawImage, edgeSimplifiedInstallerImage: the kernel options the
\* function itself sets, "rw" from 9.2 and on 9-stream.
rhel9_sysrootKernelOptions(osVersion) ==
    <<"modprobe.blacklist=vc4">>
    \o (IF ~VersionLessThan(osVersion, "9.2") \/ osVersion = "9-stream"
        THEN <<"rw">> ELSE <<>>)

\* Key files that take the place of the user's files
Files_keyFilesReplace(files, gpgKeyFiles) ==
    IF Len(gpgKeyFiles) > 0 THEN gpgKeyFiles ELSE files

\* osCustomizations: the key files of the custom repositories are appended
\* to the converted file customizations.
Files(files, gpgKeyFiles) ==
    IF Len(gpgKeyFiles) > 0 THEN files \o gpgKeyFiles ELSE files

\* NTP merge that keeps the default servers in front of the user's
NTPServers_defaultsKept(imageConfig, ntpServers) ==
    (IF ~IsNil(imageConfig.TimeSynchronization)
     THEN Deref(imageConfig.TimeSynchronization).Servers ELSE <<>>)
    \o ChronyServers(ntpServers)

\* osCustomizations: the NTP servers are the user's, one record each, or
\* else those of the default time synchronization.
NTPServers(imageConfig, ntpServers) ==
    IF Len(ntpServers) > 0 THEN ChronyServers(ntpServers)
    ELSE IF ~IsNil(imageConfig.TimeSynchronization)
         THEN Deref(imageConfig.TimeSynchronization).Servers
    ELSE <<>>

\* rhel9 osCustomizations: the leap second timezone comes with the default
\* servers only.
LeapSecTZ(imageConfig, ntpServers) ==
    IF Len(ntpServers) = 0 /\ ~IsNil(imageConfig.TimeSynchronization)
    THEN Deref(imageConfig.TimeSynchronization).LeapsecTz
    ELSE Nil

\* SELinux policy that is dropped whenever NoSElinux is set, true or false
SElinux_offWhenSet(imageConfig) ==
    IF IsNil(imageConfig.NoSElinux) THEN "targeted" ELSE ""

\* osCustomizations: the tree is relabelled unless NoSElinux is set to true.
SElinux(imageConfig) ==
    IF IsNil(imageConfig.NoSElinux)
       \/ (~IsNil(imageConfig.NoSElinux) /\ ~Deref(imageConfig.NoSElinux))
    THEN "targeted" ELSE ""

\* OpenSCAP datastream that is always the distribution's
Datastream_alwaysDefault(userDatastream, default) == default

\* osCustomizations: the OpenSCAP datastream is the user's unless it is empty.
Datastream(userDatastream, default) ==
    IF userDatastream = "" THEN default ELSE userDatastream

\* fedora: osCustomizations(t, osPackageSet, containers, c)
fedora_osCustomizations(t, osPackageSet, containers, c, order) ==
    LET imageConfig == t.defaultImageConfig
        locale == GetPrimaryLocale(c)
        tz == GetTimezoneSettings(c)
        dirs == DirectoryCustomizationsToFsNodeDirectories(c.Directories)
        files == FileCustomizationsToFsNodeFiles(c.Files)
        customRepos == GetRepositories(c)
        conv == RepoCustomizationsToRepoConfigAndGPGKeyFiles(customRepos.repos)
        datastream ==
            Datastream(Deref(c.OpenSCAP).DataStream, DefaultFedoraDatastream)
        osc == [ZeroOSCustomizations EXCEPT
            !.KernelName = IF t.bootable \/ t.rpmOstree THEN GetKernel(c).Name ELSE "",
            !.KernelOptionsAppend = fedora_kernelOptions(t, c),
            !.ExtraBasePackages = osPackageSet.Include,
            !.ExcludeBasePackages = osPackageSet.Exclude,
            !.ExtraBaseRepos = osPackageSet.Repositories,
            !.Containers = containers,
            !.GPGKeyFiles = imageConfig.GPGKeyFiles,
            !.ExcludeDocs =
                IF IsNil(imageConfig.ExcludeDocs) THEN FALSE ELSE Deref(imageConfig.ExcludeDocs),
            !.Groups = fedora_payloadGroups(t, c),
            !.Users = fedora_payloadUsers(t, c),
            !.EnabledServices = imageConfig.EnabledServices,
            !.DisabledServices = imageConfig.DisabledServices,
            !.DefaultTarget =
                IF IsNil(imageConfig.DefaultTarget) THEN "" ELSE Deref(imageConfig.DefaultTarget),
            !.Firewall = fedora_firewall(imageConfig, c),
            !.Language =
                IF ~IsNil(locale.language) THEN Deref(locale.language)
                ELSE IF ~IsNil(imageConfig.Locale) THEN Deref(imageConfig.Locale)
                ELSE "",
            !.Keyboard = Keyboard(imageConfig, locale),
            !.Hostname =
                IF ~IsNil(c.Hostname) THEN Deref(c.Hostname) ELSE "localhost.localdomain",
            !.Timezone =
                IF ~IsNil(tz.timezone) THEN Deref(tz.timezone)
                ELSE IF ~IsNil(imageConfig.Timezone) THEN Deref(imageConfig.Timezone)
                ELSE "",
            !.NTPServers = NTPServers(imageConfig, tz.ntpServers),
            !.SElinux = SElinux(imageConfig),
            !.OpenSCAPConfig =
                IF IsNil(c.OpenSCAP) THEN Nil
                ELSE Some(NewOscapRemediationStageOptions(datastream,
                                                          Deref(c.OpenSCAP).ProfileID)),
            !.Directories = dirs.nodes,
            !.Files = Files(files.nodes, conv.gpgKeyFiles),
            !.YUMRepos = YumReposInOrder(conv.yumRepos, order)]
    IN  IF ~IsNil(c.OpenSCAP) /\ t.rpmOstree
        THEN Panicked("unexpected oscap options for ostree image type")
        ELSE IF dirs.err # ""
        THEN Panicked("failed to convert directory customizations to fs node directories")
        ELSE IF files.err # ""
        THEN Panicked("failed to convert file customizations to fs node files")
        ELSE IF customRepos.err # "" THEN Panicked("failed to get custom repos")
        ELSE IF conv.err # ""
        THEN Panicked("failed to convert inline gpgkeys to fs node files")
        ELSE Returned(osc)

\* rhel9: osCustomizations(t, osPackageSet, options, containers, c)
rhel9_osCustomizations(t, osPackageSet, options, containers, c, order) ==
    LET imageConfig == t.defaultImageConfig
        locale == GetPrimaryLocale(c)
        tz == GetTimezoneSettings(c)
        dirs == DirectoryCustomizationsToFsNodeDirectories(c.Directories)
        files == FileCustomizationsToFsNodeFiles(c.Files)
        customRepos == GetRepositories(c)
        conv == RepoCustomizationsToRepoConfigAndGPGKeyFiles(customRepos.repos)
        datastream ==
            Datastream(Deref(c.OpenSCAP).DataStream, DefaultRHEL9Datastream(t.isRHEL))
        defaultKeyboard == IsNil(locale.keyboard) /\ ~IsNil(imageConfig.Keyboard)
        osc == [ZeroOSCustomizations EXCEPT
            !.KernelName = IF t.bootable \/ t.rpmOstree THEN GetKernel(c).Name ELSE "",
            !.KernelOptionsAppend = rhel9_kernelOptions(t, c),
            !.ExtraBasePackages = osPackageSet.Include,
            !.ExcludeBasePackages = osPackageSet.Exclude,
            !.ExtraBaseRepos = osPackageSet.Repositories,
            !.Containers = containers,
            !.GPGKeyFiles = imageConfig.GPGKeyFiles,
            !.ExcludeDocs =
                IF IsNil(imageConfig.ExcludeDocs) THEN FALSE ELSE Deref(imageConfig.ExcludeDocs),
            !.Groups = rhel9_payloadGroups(t, c),
            !.Users = rhel9_payloadUsers(t, c),
            !.EnabledServices = imageConfig.EnabledServices,
            !.DisabledServices = imageConfig.DisabledServices,
            !.DefaultTarget =
                IF IsNil(imageConfig.DefaultTarget) THEN "" ELSE Deref(imageConfig.DefaultTarget),
            !.Firewall = rhel9_firewall(imageConfig, c),
            !.Language =
                IF ~IsNil(locale.language) THEN Deref(locale.language)
                ELSE IF ~IsNil(imageConfig.Locale) THEN Deref(imageConfig.Locale)
                ELSE "",
            !.Keyboard = Keyboard(imageConfig, locale),
            !.X11KeymapLayouts =
                IF defaultKeyboard /\ ~IsNil(Deref(imageConfig.Keyboard).X11Keymap)
                THEN Deref(Deref(imageConfig.Keyboard).X11Keymap).Layouts
                ELSE <<>>,
            !.Hostname = IF ~IsNil(c.Hostname) THEN Deref(c.Hostname) ELSE "",
            !.Timezone =
                IF ~IsNil(tz.timezone) THEN Deref(tz.timezone)
                ELSE IF ~IsNil(imageConfig.Timezone) THEN Deref(imageConfig.Timezone)
                ELSE "",
            !.NTPServers = NTPServers(imageConfig, tz.ntpServers),
            !.LeapSecTZ = LeapSecTZ(imageConfig, tz.ntpServers),
            !.SElinux = SElinux(imageConfig),
            !.OpenSCAPConfig =
                IF IsNil(c.OpenSCAP) THEN Nil
                ELSE Some(NewOscapRemediationStageOptions(datastream,
                                                          Deref(c.OpenSCAP).ProfileID)),
            !.FactAPIType =
                IF t.isRHEL /\ ~IsNil(options.Facts) THEN Some(Deref(options.Facts).APIType)
                ELSE Nil,
            !.Directories = dirs.nodes,
            !.Files = Files(files.nodes, conv.gpgKeyFiles),
            !.YUMRepos = imageConfig.YUMRepos \o YumReposInOrder(conv.yumRepos, order),
            !.Subscription = options.Subscription]
    IN  IF ~IsNil(c.Firewall) /\ \E i \in DOMAIN Deref(c.Firewall).Zones :
                                      IsNil(Deref(c.Firewall).Zones[i].Name)
        THEN Panicked("invalid memory address or nil pointer dereference")
        ELSE IF ~IsNil(c.OpenSCAP) /\ t.rpmOstree
        THEN Panicked("unexpected oscap options for ostree image type")
        ELSE IF dirs.err # ""
        THEN Panicked("failed to convert directory customizations to fs node directories")
        ELSE IF files.err # ""
        THEN Panicked("failed to convert file customizations to fs node files")
        ELSE IF customRepos.err # "" THEN Panicked("failed to get custom repos")
        ELSE IF conv.err # ""
        THEN Panicked("failed to convert inline gpgkeys to fs node files")
        ELSE Returned(osc)

----------------------------------------------------------------------------
(* Image-type construction functions.  Each returns (image, error); a      *)
(* panic raised below it aborts the call.                                  *)

osPkgsKey == "os"

installerPkgsKey == "installer"

containerPkgsKey == "container"

AnacondaUsersModule == "org.fedoraproject.Anaconda.Modules.Users"

\* The fields of the image kinds of package image, all at their zero value.
ZeroImage ==
    [kind |-> "", OSCustomizations |-> ZeroOSCustomizations,
     Users |-> <<>>, Groups |-> <<>>,
     AdditionalKernelOpts |-> <<>>, AdditionalAnacondaModules |-> <<>>,
     AdditionalDracutModules |-> <<>>, AdditionalDrivers |-> <<>>,
     KernelOptionsAppend |-> <<>>, SysrootReadOnly |-> FALSE, Ignition |-> FALSE,
     OSTreeParent |-> Nil, CommitRef |-> "", Commit |-> Nil, Remote |-> Nil,
     OSName |-> "", OSVersion |-> "", Variant |-> "", Product |-> "", Release |-> "",
     ISOLabelTempl |-> "", SquashfsCompression |-> "", ISORootKickstart |-> FALSE,
     ExtraBasePackages |-> Nil, ExtraContainerPackages |-> Nil, ContainerLanguage |-> "",
     PartitionTable |-> Nil, Filename |-> "", Compression |-> "",
     Keyboard |-> "", Locale |-> "", Directories |-> <<>>, Files |-> <<>>,
     RawImage |-> Nil, installDevice |-> "", FDO |-> Nil, IgnitionEmbedded |-> Nil]

Ok(image) == [img |-> Some(image), err |-> "", panic |-> ""]

Fail(e) == [img |-> Nil, err |-> e, panic |-> ""]

Abort(msg) == [img |-> Nil, err |-> "", panic |-> msg]

\* t.getPartitionTable(filesystems, options, rng): the partition table of
\* the requested mountpoints, laid out with the caller's random source.
getPartitionTable(t, filesystems, options, rng) ==
    IF \E i \in DOMAIN filesystems : ~PathOK(filesystems[i].Mountpoint)
    THEN [pt |-> Nil, err |-> "invalid mountpoint"]
    ELSE [pt |-> Some([mountpoints |-> filesystems, size |-> options.Size, uuidSeed |-> rng]),
          err |-> ""]

\* The error of the helper, passed on without the name of the image type
NameError_unnamed(t, e) == e

\* fmt.Errorf("%s: %s", t.Name(), err.Error())
NameError(t, e) == t.name \o ": " \o e

\* fmt.Sprintf("%s %s", d.product, d.osVersion)
ReleaseOf(t) == t.product \o " " \o t.osVersion

\* fedora: liveImage
fedora_liveImage(t, c, options, packageSets, containers, rng, order) ==
    LET r == fedora_osCustomizations(t, packageSets[osPkgsKey], containers, c, order)
        p == getPartitionTable(t, c.Filesystem, options, rng)
    IN  IF r.panic # "" THEN Abort(r.panic)
        ELSE IF p.err # "" THEN Fail(p.err)
        ELSE Ok([ZeroImage EXCEPT
                !.kind = "LiveImage", !.OSCustomizations = r.osc,
                !.Compression = t.compression, !.PartitionTable = p.pt,
                !.Filename = t.filename])

\* fedora: containerImage
fedora_containerImage(t, c, options, packageSets, containers, rng, order) ==
    LET r == fedora_osCustomizations(t, packageSets[osPkgsKey], containers, c, order)
    IN  IF r.panic # "" THEN Abort(r.panic)
        ELSE Ok([ZeroImage EXCEPT
                !.kind = "BaseContainer", !.OSCustomizations = r.osc,
                !.Filename = t.filename])

fedora_liveInstallerImage_webuiFrom38(t, c, options, packageSets, containers, rng, order) ==
    Ok([ZeroImage EXCEPT
        !.kind = "AnacondaLiveInstaller",
        !.AdditionalKernelOpts =
            IF VersionLessThan(t.releasever, "38") THEN <<>> ELSE <<"inst.webui">>,
        !.ExtraBasePackages = Some(packageSets[installerPkgsKey]),
        !.ISOLabelTempl = t.isolabelTmpl, !.Product = t.product,
        !.OSName = "fedora", !.OSVersion = t.osVersion, !.Release = ReleaseOf(t),
        !.Filename = t.filename])

\* fedora: liveInstallerImage
fedora_liveInstallerImage(t, c, options, packageSets, containers, rng, order) ==
    Ok([ZeroImage EXCEPT
        !.kind = "AnacondaLiveInstaller",
        !.AdditionalKernelOpts =
            IF VersionLessThan(t.releasever, "39") THEN <<>> ELSE <<"inst.webui">>,
        !.ExtraBasePackages = Some(packageSets[installerPkgsKey]),
        !.ISOLabelTempl = t.isolabelTmpl, !.Product = t.product,
        !.OSName = "fedora", !.OSVersion = t.osVersion, !.Release = ReleaseOf(t),
        !.Filename = t.filename])

\* fedora: imageInstallerImage
fedora_imageInstallerImage(t, c, options, packageSets, containers, rng, order) ==
    LET webui == HasPrefix(t.distroName, "fedora") /\ ~VersionLessThan(t.releasever, "38")
        r == fedora_osCustomizations(t, packageSets[osPkgsKey], containers, c, order)
    IN  IF r.panic # "" THEN Abort(r.panic)
        ELSE Ok([ZeroImage EXCEPT
                !.kind = "AnacondaTarInstaller",
                !.AdditionalAnacondaModules =
                    (IF webui
                     THEN <<"org.fedoraproject.Anaconda.Modules.Security",
                            "org.fedoraproject.Anaconda.Modules.Timezone",
                            "org.fedoraproject.Anaconda.Modules.Localization">>
                     ELSE <<>>) \o <<AnacondaUsersModule>>,
                !.AdditionalKernelOpts =
                    IF webui THEN <<"inst.webui", "inst.webui.remote">> ELSE <<>>,
                !.OSCustomizations = r.osc,
                !.ExtraBasePackages = Some(packageSets[installerPkgsKey]),
                !.Users = UsersFromBP(c.User), !.Groups = GroupsFromBP(c.Group),
                !.SquashfsCompression = "lz4",
                !.ISOLabelTempl = t.isolabelTmpl, !.Product = t.product,
                !.OSName = "fedora", !.OSVersion = t.osVersion, !.Release = ReleaseOf(t),
                !.Filename = t.filename])

\* fedora: iotCommitImage
fedora_iotCommitImage(t, c, options, packageSets, containers, rng, order) ==
    LET pc0 == fedora_makeOSTreeParentCommit(options.OSTree, t.ostreeRef)
        r == fedora_osCustomizations(t, packageSets[osPkgsKey], containers, c, order)
    IN  IF r.panic # "" THEN Abort(r.panic)
        ELSE Ok([ZeroImage EXCEPT
                !.kind = "OSTreeArchive", !.CommitRef = pc0.ref,
                !.OSCustomizations = r.osc, !.OSTreeParent = pc0.parent,
                !.OSVersion = t.osVersion, !.Filename = t.filename])

\* fedora: iotContainerImage
fedora_iotContainerImage(t, c, options, packageSets, containers, rng, order) ==
    LET pc0 == fedora_makeOSTreeParentCommit(options.OSTree, t.ostreeRef)
        r == fedora_osCustomizations(t, packageSets[osPkgsKey], containers, c, order)
    IN  IF r.panic # "" THEN Abort(r.panic)
        ELSE Ok([ZeroImage EXCEPT
                !.kind = "OSTreeContainer", !.CommitRef = pc0.ref,
                !.OSCustomizations = r.osc, !.ContainerLanguage = r.osc.Language,
                !.OSTreeParent = pc0.parent, !.OSVersion = t.osVersion,
                !.ExtraContainerPackages = Some(packageSets[containerPkgsKey]),
                !.Filename = t.filename])

\* fedora: iotInstallerImage
fedora_iotInstallerImage(t, c, options, packageSets, containers, rng, order) ==
    LET commit == fedora_makeOSTreePayloadCommit(options.OSTree, t.ostreeRef)
    IN  IF commit.err # "" THEN Fail(NameError(t, commit.err))
        ELSE Ok([ZeroImage EXCEPT
                !.kind = "AnacondaOSTreeInstaller", !.Commit = Some(commit.spec),
                !.ExtraBasePackages = Some(packageSets[installerPkgsKey]),
                !.Users = UsersFromBP(c.User), !.Groups = GroupsFromBP(c.Group),
                !.AdditionalAnacondaModules =
                    <<"org.fedoraproject.Anaconda.Modules.Timezone",
                      "org.fedoraproject.Anaconda.Modules.Localization",
                      AnacondaUsersModule>>,
                !.SquashfsCompression = "lz4",
                !.ISOLabelTempl = t.isolabelTmpl, !.Product = t.product,
                !.Variant = "IoT", !.OSName = "fedora", !.OSVersion = t.osVersion,
                !.Release = ReleaseOf(t), !.Filename = t.filename])

\* fedora: iotRawImage
fedora_iotRawImage(t, c, options, packageSets, containers, rng, order) ==
    LET commit == fedora_makeOSTreePayloadCommit(options.OSTree, t.ostreeRef)
        dirs == DirectoryCustomizationsToFsNodeDirectories(c.Directories)
        files == FileCustomizationsToFsNodeFiles(c.Files)
        p == getPartitionTable(t, c.Filesystem, options, rng)
    IN  IF commit.err # "" THEN Fail(NameError(t, commit.err))
        ELSE IF dirs.err # "" THEN Fail(dirs.err)
        ELSE IF files.err # "" THEN Fail(files.err)
        ELSE IF p.err # "" THEN Fail(p.err)
        ELSE Ok([ZeroImage EXCEPT
                !.kind = "OSTreeRawImage", !.Commit = Some(commit.spec),
                !.SysrootReadOnly =
                    HasPrefix(t.distroName, "fedora") /\ ~VersionLessThan(t.releasever, "37"),
                !.Users = UsersFromBP(c.User), !.Groups = GroupsFromBP(c.Group),
                !.Directories = dirs.nodes, !.Files = files.nodes,
                !.KernelOptionsAppend = <<"modprobe.blacklist=vc4", "rw">>,
                !.Keyboard = "us", !.Locale = "C.UTF-8",
                !.Remote = Some([Name |-> "fedora-iot",
                                 URL |-> "https://ostree.fedoraproject.org/iot",
                                 ContentURL |->
                                     "mirrorlist=https://ostree.fedoraproject.org/iot/mirrorlist",
                                 GPGKeyPaths |-> <<"/etc/pki/rpm-gpg/">>]),
                !.OSName = "fedora-iot", !.PartitionTable = p.pt,
                !.Filename = t.filename, !.Compression = t.compression])

\* rhel9: liveImage
rhel9_liveImage(t, c, options, packageSets, containers, rng, order) ==
    LET r == rhel9_osCustomizations(t, packageSets[osPkgsKey], options, containers, c, order)
        p == getPartitionTable(t, c.Filesystem, options, rng)
    IN  IF r.panic # "" THEN Abort(r.panic)
        ELSE IF p.err # "" THEN Fail(p.err)
        ELSE Ok([ZeroImage EXCEPT
                !.kind = "LiveImage", !.OSCustomizations = r.osc,
                !.Compression = t.compression, !.PartitionTable = p.pt,
                !.Filename = t.filename])

\* The services appended to EnabledServices by the rhel9 edge commit and
\* container images from 9.2 on.
IgnitionServices ==
    <<"ignition-firstboot-complete.service", "coreos-ignition-write-issues.service">>

\* rhel9: edgeCommitImage
rhel9_edgeCommitImage(t, c, options, packageSets, containers, rng, order) ==
    LET pc0 == rhel9_makeOSTreeParentCommit(options.OSTree, t.ostreeRef)
        r == rhel9_osCustomizations(t, packageSets[osPkgsKey], options, containers, c, order)
        gate == ~VersionLessThan(t.osVersion, "9.2") \/ t.osVersion = "9-stream"
    IN  IF r.panic # "" THEN Abort(r.panic)
        ELSE Ok([ZeroImage EXCEPT
                !.kind = "OSTreeArchive", !.CommitRef = pc0.ref,
                !.OSCustomizations =
                    [r.osc EXCEPT !.EnabledServices =
                        IF gate THEN r.osc.EnabledServices \o IgnitionServices
                        ELSE r.osc.EnabledServices],
                !.OSTreeParent = pc0.parent,
                !.OSVersion = t.osVersion, !.Filename = t.filename])

\* rhel9: edgeContainerImage
rhel9_edgeContainerImage(t, c, options, packageSets, containers, rng, order) ==
    LET pc0 == rhel9_makeOSTreeParentCommit(options.OSTree, t.ostreeRef)
        r == rhel9_osCustomizations(t, packageSets[osPkgsKey], options, containers, c, order)
        gate == ~VersionLessThan(t.osVersion, "9.2") \/ t.osVersion = "9-stream"
    IN  IF r.panic # "" THEN Abort(r.panic)
        ELSE Ok([ZeroImage EXCEPT
                !.kind = "OSTreeContainer", !.CommitRef = pc0.ref,
                !.OSCustomizations =
                    [r.osc EXCEPT !.EnabledServices =
                        IF gate THEN r.osc.EnabledServices \o IgnitionServices
                        ELSE r.osc.EnabledServices],
                !.ContainerLanguage = r.osc.Language,
                !.OSTreeParent = pc0.parent, !.OSVersion = t.osVersion,
                !.ExtraContainerPackages = Some(packageSets[containerPkgsKey]),
                !.Filename = t.filename])

\* rhel9: edgeInstallerImage
rhel9_edgeInstallerImage(t, c, options, packageSets, containers, rng, order) ==
    LET commit == rhel9_makeOSTreePayloadCommit(options.OSTree, t.ostreeRef)
        imgUsers == UsersFromBP(c.User)
        imgGroups == GroupsFromBP(c.Group)
    IN  IF commit.err # "" THEN Fail(NameError(t, commit.err))
        ELSE Ok([ZeroImage EXCEPT
                !.kind = "AnacondaOSTreeInstaller", !.Commit = Some(commit.spec),
                !.ExtraBasePackages = Some(packageSets[installerPkgsKey]),
                !.Users = imgUsers, !.Groups = imgGroups,
                !.SquashfsCompression = "xz",
                !.AdditionalDracutModules = <<"nvdimm", "prefixdevname", "prefixdevname-tools">>,
                !.AdditionalDrivers = <<"cuse", "ipmi_devintf", "ipmi_msghandler">>,
                !.AdditionalAnacondaModules =
                    IF Len(imgUsers) + Len(imgGroups) > 0 THEN <<AnacondaUsersModule>>
                    ELSE <<>>,
                !.ISOLabelTempl = t.isolabelTmpl, !.Product = t.product,
                !.Variant = "edge", !.OSName = "rhel", !.OSVersion = t.osVersion,
                !.Release = ReleaseOf(t), !.Filename = t.filename])

\* The kernel options appended from the blueprint by the rhel9 raw images:
\* the Ignition provisioning URL, then the blueprint's kernel append.
rhel9_rawKernelOptionsFromBP(c) ==
    (IF ~IsNil(c.Ignition) /\ ~IsNil(Deref(c.Ignition).FirstBoot)
        /\ Deref(Deref(c.Ignition).FirstBoot).ProvisioningURL # ""
     THEN <<"ignition.config.url=" \o Deref(Deref(c.Ignition).FirstBoot).ProvisioningURL>>
     ELSE <<>>)
    \o (IF GetKernel(c).Append # "" THEN <<GetKernel(c).Append>> ELSE <<>>)

\* rhel9: edgeRawImage
rhel9_edgeRawImage(t, c, options, packageSets, containers, rng, order) ==
    LET commit == rhel9_makeOSTreePayloadCommit(options.OSTree, t.ostreeRef)
        p == getPartitionTable(t, c.Filesystem, options, rng)
    IN  IF commit.err # "" THEN Fail(NameError(t, commit.err))
        ELSE IF p.err # "" THEN Fail(p.err)
        ELSE Ok([ZeroImage EXCEPT
                !.kind = "OSTreeRawImage", !.Commit = Some(commit.spec),
                !.Ignition = (~VersionLessThan(t.osVersion, "9.2") \/ t.osVersion = "9-stream"),
                !.Users = UsersFromBP(c.User), !.Groups = GroupsFromBP(c.Group),
                !.KernelOptionsAppend =
                    rhel9_sysrootKernelOptions(t.osVersion)
                    \o rhel9_rawKernelOptionsFromBP(c),
                !.Keyboard = "us", !.Locale = "C.UTF-8",
                !.SysrootReadOnly =
                    (~VersionLessThan(t.osVersion, "9.2") \/ t.osVersion = "9-stream"),
                !.Remote = Some([Name |-> "rhel-edge",
                                 URL |-> Deref(options.OSTree).URL,
                                 ContentURL |-> Deref(options.OSTree).ContentURL,
                                 GPGKeyPaths |-> <<>>]),
                !.OSName = "redhat", !.PartitionTable = p.pt,
                !.Filename = t.filename, !.Compression = t.compression])

\* ignition.EmbeddedOptionsFromBP
EmbeddedOptionsFromBP(embedded) ==
    IF embedded.Config = "" THEN [opts |-> Nil, err |-> "embedded ignition config is empty"]
    ELSE [opts |-> Some([Config |-> embedded.Config]), err |-> ""]

\* rhel9: edgeSimplifiedInstallerImage
rhel9_edgeSimplifiedInstallerImage(t, c, options, packageSets, containers, rng, order) ==
    LET commit == rhel9_makeOSTreePayloadCommit(options.OSTree, t.ostreeRef)
        p == getPartitionTable(t, c.Filesystem, options, rng)
        rawImg == [ZeroImage EXCEPT
            !.kind = "OSTreeRawImage", !.Commit = Some(commit.spec),
            !.Ignition = (~VersionLessThan(t.osVersion, "9.2") \/ t.osVersion = "9-stream"),
            !.Users = UsersFromBP(c.User), !.Groups = GroupsFromBP(c.Group),
            !.KernelOptionsAppend =
                rhel9_sysrootKernelOptions(t.osVersion)
                \o rhel9_rawKernelOptionsFromBP(c),
            !.Keyboard = "us", !.Locale = "C.UTF-8",
            !.SysrootReadOnly =
                (~VersionLessThan(t.osVersion, "9.2") \/ t.osVersion = "9-stream"),
            !.Remote = Some([Name |-> "rhel-edge",
                             URL |-> Deref(options.OSTree).URL,
                             ContentURL |-> Deref(options.OSTree).ContentURL,
                             GPGKeyPaths |-> <<>>]),
            !.OSName = "redhat", !.PartitionTable = p.pt, !.Filename = t.filename]
        embedded ==
            IF ~IsNil(c.Ignition) /\ ~IsNil(Deref(c.Ignition).Embedded)
            THEN EmbeddedOptionsFromBP(Deref(Deref(c.Ignition).Embedded))
            ELSE [opts |-> Nil, err |-> ""]
    IN  IF commit.err # "" THEN Fail(NameError(t, commit.err))
        ELSE IF p.err # "" THEN Fail(p.err)
        ELSE IF embedded.err # "" THEN Fail(embedded.err)
        ELSE Ok([ZeroImage EXCEPT
                !.kind = "OSTreeSimplifiedInstaller", !.RawImage = Some(rawImg),
                !.installDevice = c.InstallationDevice,
                !.ExtraBasePackages = Some(packageSets[installerPkgsKey]),
                !.Filename = t.filename, !.FDO = c.FDO,
                !.IgnitionEmbedded = embedded.opts,
                !.ISOLabelTempl = t.isolabelTmpl, !.Product = t.product,
                !.Variant = "edge", !.OSName = "redhat", !.OSVersion = t.osVersion,
                !.AdditionalDracutModules = <<"prefixdevname", "prefixdevname-tools">>])

\* rhel9: imageInstallerImage
rhel9_imageInstallerImage(t, c, options, packageSets, containers, rng, order) ==
    LET r == rhel9_osCustomizations(t, packageSets[osPkgsKey], options, containers, c, order)
    IN  IF r.panic # "" THEN Abort(r.panic)
        ELSE Ok([ZeroImage EXCEPT
                !.kind = "AnacondaTarInstaller", !.OSCustomizations = r.osc,
                !.ExtraBasePackages = Some(packageSets[installerPkgsKey]),
                !.Users = UsersFromBP(c.User), !.Groups = GroupsFromBP(c.Group),
                !.AdditionalDracutModules = <<"nvdimm", "prefixdevname", "prefixdevname-tools">>,
                !.AdditionalDrivers = <<"cuse", "ipmi_devintf", "ipmi_msghandler">>,
                !.AdditionalAnacondaModules = <<AnacondaUsersModule>>,
                !.SquashfsCompression = "xz", !.ISORootKickstart = TRUE,
                !.ISOLabelTempl = t.isolabelTmpl, !.Product = t.product,
                !.OSName = "redhat", !.OSVersion = t.osVersion, !.Release = ReleaseOf(t),
                !.Filename = t.filename])

\* rhel9: tarImage
rhel9_tarImage(t, c, options, packageSets, containers, rng, order) ==
    LET r == rhel9_osCustomizations(t, packageSets[osPkgsKey], options, containers, c, order)
    IN  IF r.panic # "" THEN Abort(r.panic)
        ELSE Ok([ZeroImage EXCEPT
                !.kind = "Archive", !.OSCustomizations = r.osc,
                !.Filename = t.filename])

----------------------------------------------------------------------------
(* The registry: image type descriptors and the dispatch to their          *)
(* construction function.                                                  *)

\* The descriptor of one image type of a distribution release.
ImageType(family, name, image, bootable, rpmOstree, bootISO, osVersion) ==
    [family |-> family, name |-> name, image |-> image,
     bootable |-> bootable, rpmOstree |-> rpmOstree, bootISO |-> bootISO,
     osVersion |-> osVersion,
     releasever |-> IF family = "fedora" THEN osVersion ELSE "9",
     distroName |-> IF family = "fedora" THEN "fedora-" \o osVersion
                    ELSE IF IsRolling(osVersion) THEN "centos-9"
                    ELSE "rhel-" \o osVersion,
     isRHEL |-> family = "rhel9" /\ ~IsRolling(osVersion),
     product |-> IF family = "fedora" THEN "Fedora"
                 ELSE IF IsRolling(osVersion) THEN "CentOS Stream"
                 ELSE "Red Hat Enterprise Linux",
     isolabelTmpl |-> IF family = "fedora" THEN "Fedora-" \o osVersion \o "-BaseOS-%s"
                      ELSE "RHEL-9-BaseOS-%s",
     ostreeRef |-> IF ~rpmOstree THEN ""
                   ELSE IF family = "fedora" THEN "fedora/" \o osVersion \o "/x86_64/iot"
                   ELSE IF IsRolling(osVersion) THEN "centos/9/x86_64/edge"
                   ELSE "rhel/9/x86_64/edge",
     filename |-> name \o ".img", compression |-> "",
     kernelOptions |-> "", defaultImageConfig |-> ZeroImageConfig]

\* The image types of the fedora family, for one release.
FedoraImageTypes(v) ==
    {ImageType("fedora", "qcow2", "liveImage", TRUE, FALSE, FALSE, v),
     ImageType("fedora", "container", "containerImage", FALSE, FALSE, FALSE, v),
     ImageType("fedora", "live-installer", "liveInstallerImage", TRUE, FALSE, TRUE, v),
     ImageType("fedora", "image-installer", "imageInstallerImage", TRUE, FALSE, TRUE, v),
     ImageType("fedora", "iot-commit", "iotCommitImage", FALSE, TRUE, FALSE, v),
     ImageType("fedora", "iot-container", "iotContainerImage", FALSE, TRUE, FALSE, v),
     ImageType("fedora", "iot-installer", "iotInstallerImage", TRUE, TRUE, TRUE, v),
     ImageType("fedora", "iot-raw-image", "iotRawImage", TRUE, TRUE, FALSE, v)}

\* The image types of the rhel9 family, for one release.
RHEL9ImageTypes(v) ==
    {ImageType("rhel9", "qcow2", "liveImage", TRUE, FALSE, FALSE, v),
     ImageType("rhel9", "tar", "tarImage", FALSE, FALSE, FALSE, v),
     ImageType("rhel9", "image-installer", "imageInstallerImage", TRUE, FALSE, TRUE, v),
     ImageType("rhel9", "edge-commit", "edgeCommitImage", FALSE, TRUE, FALSE, v),
     ImageType("rhel9", "edge-container", "edgeContainerImage", FALSE, TRUE, FALSE, v),
     ImageType("rhel9", "edge-installer", "edgeInstallerImage", TRUE, TRUE, TRUE, v),
     ImageType("rhel9", "edge-raw-image", "edgeRawImage", TRUE, TRUE, FALSE, v),
     ImageType("rhel9", "edge-simplified-installer", "edgeSimplifiedInstallerImage",
               TRUE, TRUE, TRUE, v)}

\* t.image(workload, t, customizations, options, packageSets, containers, rng)
BuildImage(t, c, options, packageSets, containers, rng, order) ==
    IF t.family = "fedora" THEN
        CASE t.image = "liveImage" ->
                fedora_liveImage(t, c, options, packageSets, containers, rng, order)
          [] t.image = "containerImage" ->
                fedora_containerImage(t, c, options, packageSets, containers, rng, order)
          [] t.image = "liveInstallerImage" ->
                fedora_liveInstallerImage(t, c, options, packageSets, containers, rng, order)
          [] t.image = "imageInstallerImage" ->
                fedora_imageInstallerImage(t, c, options, packageSets, containers, rng, order)
          [] t.image = "iotCommitImage" ->
                fedora_iotCommitImage(t, c, options, packageSets, containers, rng, order)
          [] t.image = "iotContainerImage" ->
                fedora_iotContainerImage(t, c, options, packageSets, containers, rng, order)
          [] t.image = "iotInstallerImage" ->
                fedora_iotInstallerImage(t, c, options, packageSets, containers, rng, order)
          [] t.image = "iotRawImage" ->
                fedora_iotRawImage(t, c, options, packageSets, containers, rng, order)
    ELSE
        CASE t.image = "liveImage" ->
                rhel9_liveImage(t, c, options, packageSets, containers, rng, order)
          [] t.image = "tarImage" ->
                rhel9_tarImage(t, c, options, packageSets, containers, rng, order)
          [] t.image = "imageInstallerImage" ->
                rhel9_imageInstallerImage(t, c, options, packageSets, containers, rng, order)
          [] t.image = "edgeCommitImage" ->
                rhel9_edgeCommitImage(t, c, options, packageSets, containers, rng, order)
          [] t.image = "edgeContainerImage" ->
                rhel9_edgeContainerImage(t, c, options, packageSets, containers, rng, order)
          [] t.image = "edgeInstallerImage" ->
                rhel9_edgeInstallerImage(t, c, options, packageSets, containers, rng, order)
          [] t.image = "edgeRawImage" ->
                rhel9_edgeRawImage(t, c, options, packageSets, containers, rng, order)
          [] t.image = "edgeSimplifiedInstallerImage" ->
                rhel9_edgeSimplifiedInstallerImage(t, c, options, packageSets, containers,
                                                   rng, order)

----------------------------------------------------------------------------
(* The build driver: makeManifest and the OSTree resolver *)

\* distro.ImageOptions built by makeManifest from the build config
ImageOptions(ostree) ==
    [Size |-> 0, OSTree |-> ostree, Facts |-> Some([APIType |-> "test-manifest"]),
     Subscription |-> Nil]

\* manifest.GetOSTreeSourceSpecs: the OSTree sources of each pipeline
GetOSTreeSourceSpecs(image) ==
    LET raw == IF IsNil(image.RawImage) THEN image ELSE Deref(image.RawImage)
        parent == IF IsNil(image.OSTreeParent) THEN <<>> ELSE <<Deref(image.OSTreeParent)>>
        payload == IF IsNil(raw.Commit) THEN <<>> ELSE <<Deref(raw.Commit)>>
    IN  [name \in (IF Len(parent) > 0 THEN {"os"} ELSE {})
                  \cup (IF Len(payload) > 0 THEN {"ostree-deployment"} ELSE {}) |->
            IF name = "os" THEN parent ELSE payload]

\* resolvePipelineCommits(commitSources)
resolvePipelineCommits(commitSources) ==
    [name \in DOMAIN commitSources |->
        [idx \in DOMAIN commitSources[name] |-> resolveCommit(commitSources[name][idx])]]

\* manifest.Serialize: the pipelines of the image with the resolved specs
\* attached by pipeline name.
Serialize(image, commitSpecs) ==
    [pipelines |-> image, commits |-> commitSpecs, version |-> "2"]

----------------------------------------------------------------------------
(* Bounds and inputs *)

\* The blueprints carry at most MaxUsers users and MaxUsers groups.
MaxUsers == 1

\* The blueprints carry at most MaxRepos custom repositories.
MaxRepos == 2

\* The deterministic resolver is asked for at most MaxResolves commits.
MaxResolves == 2

Min(a, b) == IF a < b THEN a ELSE b

FirstN(pool, n) == SubSeq(pool, 1, Min(n, Len(pool)))

UserPool ==
    <<[name |-> "alice", key |-> "ssh-ed25519 AAAA"], [name |-> "bob", key |-> ""],
      [name |-> "carol", key |-> ""]>>

GroupPool ==
    <<[name |-> "wheel", gid |-> "10"], [name |-> "ops", gid |-> "2000"],
      [name |-> "dev", gid |-> "2001"]>>

\* alpha and gamma share the repo file alpha.repo; beta and delta have
\* their own.
RepoPool ==
    <<[Id |-> "alpha", Filename |-> "",
       GPGKeys |-> <<[Inline |-> TRUE, Data |-> "-----BEGIN PGP PUBLIC KEY BLOCK-----"]>>],
      [Id |-> "beta", Filename |-> "",
       GPGKeys |-> <<[Inline |-> FALSE, Data |-> "https://example.org/beta.gpg"]>>],
      [Id |-> "gamma", Filename |-> "alpha", GPGKeys |-> <<>>],
      [Id |-> "delta", Filename |-> "delta.repo", GPGKeys |-> <<>>]>>

KernelInputs == {Nil, Some([Name |-> "", Append |-> "debug"])}

FirewallInputs ==
    {Nil,
     Some([Ports |-> <<>>,
           Services |-> Some([Enabled |-> <<"http">>, Disabled |-> <<>>]),
           Zones |-> <<>>]),
     Some([Ports |-> <<"8080:tcp">>,
           Services |-> Nil,
           Zones |-> <<[Name |-> Some("trusted"), Sources |-> <<"192.0.2.0/24">>]>>])}

\* The blueprints of the merge runs.
MergeCustomizations ==
    {[ZeroCustomizations EXCEPT
        !.Kernel = k, !.User = FirstN(UserPool, u), !.Group = FirstN(GroupPool, g),
        !.Firewall = fw, !.Repositories = FirstN(RepoPool, r)] :
      k \in KernelInputs, u \in 0..MaxUsers, g \in 0..MaxUsers,
      fw \in FirewallInputs, r \in 0..MaxRepos}

\* Default image configurations: none, and one that enables ssh in the
\* firewall and the sshd service.
DefaultConfigs ==
    {ZeroImageConfig,
     [ZeroImageConfig EXCEPT
        !.Firewall = Some(FirewallStageOptions(<<>>, <<"ssh">>, <<>>, <<>>)),
        !.EnabledServices = <<"sshd">>]}

\* The default kernel append strings of an image type: only image types
\* with a kernel have one.
KernelOptionInputs(t) == IF t.bootable \/ t.rpmOstree THEN {"", "quiet"} ELSE {""}

\* The descriptors of the merge runs: every image type of both families.
MergeImageTypes ==
    UNION {{[t EXCEPT !.kernelOptions = k, !.defaultImageConfig = cfg] :
              k \in KernelOptionInputs(t), cfg \in DefaultConfigs} :
           t \in FedoraImageTypes("39") \cup RHEL9ImageTypes("9.2")}

\* ostree.ImageOptions
OSTreeImageOptions(url, imageRef, parentRef, rhsm) ==
    [URL |-> url, ImageRef |-> imageRef, ParentRef |-> parentRef, RHSM |-> rhsm,
     ContentURL |-> ""]

MergeOptions ==
    {ImageOptions(Nil),
     ImageOptions(Some(OSTreeImageOptions("https://ostree.example.org/repo", "", "", FALSE)))}

\* The package sets of the build: one per package set key.
PackageSets ==
    [k \in {osPkgsKey, installerPkgsKey, containerPkgsKey} |->
        [Include |-> <<k \o "-base">>, Exclude |-> <<>>, Repositories |-> <<>>]]

\* seedArg of main
Seed == 0

FedoraVersions == {"36", "37", "38", "39", "40", "9-stream"}

RHEL9Versions == {"9", "9.0", "9.1", "9.2", "9.3", "9.10", "9-stream"}

\* The descriptors of the version runs: the version-gated image types over
\* the release versions.
VersionImageTypes ==
    UNION {FedoraImageTypes(v) : v \in FedoraVersions}
    \cup UNION {RHEL9ImageTypes(v) : v \in RHEL9Versions}

VersionCustomizations ==
    {[ZeroCustomizations EXCEPT !.Kernel = k, !.User = FirstN(UserPool, u)] :
      k \in KernelInputs, u \in 0..MaxUsers}

\* Every ostree.ImageOptions value over one URL, image ref and parent ref.
OSTreeOptionInputs ==
    {Nil} \cup
    {Some(OSTreeImageOptions(url, imageRef, parentRef, rhsm)) :
        url \in {"", "https://ostree.example.org/repo"},
        imageRef \in {"", "test/9/x86_64/edge"},
        parentRef \in {"", "parent/9/x86_64/edge"},
        rhsm \in BOOLEAN}

DefaultRefInputs == {"", "fedora/39/x86_64/iot", "rhel/9/x86_64/edge"}

\* The sources asked of the resolver; two (URL, ref) pairs concatenate to
\* the same string.
SourceSpecInputs ==
    {SourceSpec(url, ref, rhsm) :
        url \in {"https://o", "https://ost"}, ref \in {"st/a", "/a", "b"},
        rhsm \in BOOLEAN}

----------------------------------------------------------------------------
(* State *)

NoInput == [t |-> ImageType("", "", "", FALSE, FALSE, FALSE, ""),
            c |-> ZeroCustomizations, options |-> ImageOptions(Nil)]

NoResult == [img |-> Nil, err |-> "", panic |-> ""]

NoManifest == [pipelines |-> ZeroImage, commits |-> <<>>, version |-> ""]

NoCall == [fn |-> ""]

Init ==
    /\ pc = "idle"
    /\ run = 1
    /\ inp = NoInput
    /\ img = NoResult
    /\ commits = <<>>
    /\ mf = NoManifest
    /\ first = NoManifest
    /\ call = NoCall

Succeeded(r) == r.err = "" /\ r.panic = ""

\* The image types of a set that one construction function builds.
TypesOf(family, image, Types) == {t \in Types : t.family = family /\ t.image = image}

\* makeManifest: imgType.Manifest has built (or failed to build) the image
\* from the blueprint and the options.
Built(t, c, o, r) ==
    /\ inp' = [t |-> t, c |-> c, options |-> o]
    /\ img' = r
    /\ pc' = IF Succeeded(r) THEN "constructed" ELSE "failed"
    /\ UNCHANGED <<run, commits, mf, first, call>>

FedoraLiveImage(T, C, O) ==
    /\ pc = "idle"
    /\ \E t \in TypesOf("fedora", "liveImage", T), c \in C, o \in O :
         \E order \in MapOrders(c) :
            Built(t, c, o, fedora_liveImage(t, c, o, PackageSets, <<>>, Seed, order))

FedoraContainerImage(T, C, O) ==
    /\ pc = "idle"
    /\ \E t \in TypesOf("fedora", "containerImage", T), c \in C, o \in O :
         \E order \in MapOrders(c) :
            Built(t, c, o, fedora_containerImage(t, c, o, PackageSets, <<>>, Seed, order))

FedoraLiveInstallerImage(T, C, O) ==
    /\ pc = "idle"
    /\ \E t \in TypesOf("fedora", "liveInstallerImage", T), c \in C, o \in O :
         \E order \in MapOrders(c) :
            Built(t, c, o, fedora_liveInstallerImage(t, c, o, PackageSets, <<>>, Seed, order))

FedoraImageInstallerImage(T, C, O) ==
    /\ pc = "idle"
    /\ \E t \in TypesOf("fedora", "imageInstallerImage", T), c \in C, o \in O :
         \E order \in MapOrders(c) :
            Built(t, c, o, fedora_imageInstallerImage(t, c, o, PackageSets, <<>>, Seed, order))

FedoraIotCommitImage(T, C, O) ==
    /\ pc = "idle"
    /\ \E t \in TypesOf("fedora", "iotCommitImage", T), c \in C, o \in O :
         \E order \in MapOrders(c) :
            Built(t, c, o, fedora_iotCommitImage(t, c, o, PackageSets, <<>>, Seed, order))

FedoraIotContainerImage(T, C, O) ==
    /\ pc = "idle"
    /\ \E t \in TypesOf("fedora", "iotContainerImage", T), c \in C, o \in O :
         \E order \in MapOrders(c) :
            Built(t, c, o, fedora_iotContainerImage(t, c, o, PackageSets, <<>>, Seed, order))

FedoraIotInstallerImage(T, C, O) ==
    /\ pc = "idle"
    /\ \E t \in TypesOf("fedora", "iotInstallerImage", T), c \in C, o \in O :
         \E order \in MapOrders(c) :
            Built(t, c, o, fedora_iotInstallerImage(t, c, o, PackageSets, <<>>, Seed, order))

FedoraIotRawImage(T, C, O) ==
    /\ pc = "idle"
    /\ \E t \in TypesOf("fedora", "iotRawImage", T), c \in C, o \in O :
         \E order \in MapOrders(c) :
            Built(t, c, o, fedora_iotRawImage(t, c, o, PackageSets, <<>>, Seed, order))

RHEL9LiveImage(T, C, O) ==
    /\ pc = "idle"
    /\ \E t \in TypesOf("rhel9", "liveImage", T), c \in C, o \in O :
         \E order \in MapOrders(c) :
            Built(t, c, o, rhel9_liveImage(t, c, o, PackageSets, <<>>, Seed, order))

RHEL9TarImage(T, C, O) ==
    /\ pc = "idle"
    /\ \E t \in TypesOf("rhel9", "tarImage", T), c \in C, o \in O :
         \E order \in MapOrders(c) :
            Built(t, c, o, rhel9_tarImage(t, c, o, PackageSets, <<>>, Seed, order))

RHEL9ImageInstallerImage(T, C, O) ==
    /\ pc = "idle"
    /\ \E t \in TypesOf("rhel9", "imageInstallerImage", T), c \in C, o \in O :
         \E order \in MapOrders(c) :
            Built(t, c, o, rhel9_imageInstallerImage(t, c, o, PackageSets, <<>>, Seed, order))

RHEL9EdgeCommitImage(T, C, O) ==
    /\ pc = "idle"
    /\ \E t \in TypesOf("rhel9", "edgeCommitImage", T), c \in C, o \in O :
         \E order \in MapOrders(c) :
            Built(t, c, o, rhel9_edgeCommitImage(t, c, o, PackageSets, <<>>, Seed, order))

RHEL9EdgeContainerImage(T, C, O) ==
    /\ pc = "idle"
    /\ \E t \in TypesOf("rhel9", "edgeContainerImage", T), c \in C, o \in O :
         \E order \in MapOrders(c) :
            Built(t, c, o, rhel9_edgeContainerImage(t, c, o, PackageSets, <<>>, Seed, order))

RHEL9EdgeInstallerImage(T, C, O) ==
    /\ pc = "idle"
    /\ \E t \in TypesOf("rhel9", "edgeInstallerImage", T), c \in C, o \in O :
         \E order \in MapOrders(c) :
            Built(t, c, o, rhel9_edgeInstallerImage(t, c, o, PackageSets, <<>>, Seed, order))

RHEL9EdgeRawImage(T, C, O) ==
    /\ pc = "idle"
    /\ \E t \in TypesOf("rhel9", "edgeRawImage", T), c \in C, o \in O :
         \E order \in MapOrders(c) :
            Built(t, c, o, rhel9_edgeRawImage(t, c, o, PackageSets, <<>>, Seed, order))

RHEL9EdgeSimplifiedInstallerImage(T, C, O) ==
    /\ pc = "idle"
    /\ \E t \in TypesOf("rhel9", "edgeSimplifiedInstallerImage", T), c \in C, o \in O :
         \E order \in MapOrders(c) :
            Built(t, c, o, rhel9_edgeSimplifiedInstallerImage(t, c, o, PackageSets, <<>>, Seed, order))

\* makeManifest: the OSTree commits of the manifest are resolved.
ResolveCommits ==
    /\ pc = "constructed"
    /\ commits' = resolvePipelineCommits(GetOSTreeSourceSpecs(Deref(img.img)))
    /\ pc' = "resolved"
    /\ UNCHANGED <<run, inp, img, mf, first, call>>

\* makeManifest: the manifest is serialized with the resolved specs.
SerializeManifest ==
    /\ pc = "resolved"
    /\ mf' = Serialize(Deref(img.img), commits)
    /\ pc' = "serialized"
    /\ UNCHANGED <<run, inp, img, commits, first, call>>

\* The same build is run a second time: same image type, blueprint,
\* options, package sets, containers, repositories and seed.
Rebuild ==
    /\ pc = "serialized"
    /\ run = 1
    /\ \E order \in MapOrders(inp.c) :
         LET r == BuildImage(inp.t, inp.c, inp.options, PackageSets, <<>>, Seed, order)
         IN  /\ img' = r
             /\ pc' = IF Succeeded(r) THEN "constructed" ELSE "failed"
    /\ run' = 2
    /\ first' = mf
    /\ commits' = <<>>
    /\ mf' = NoManifest
    /\ UNCHANGED <<inp, call>>

Next ==
    \/ FedoraLiveImage(MergeImageTypes, MergeCustomizations, MergeOptions)
    \/ FedoraContainerImage(MergeImageTypes, MergeCustomizations, MergeOptions)
    \/ FedoraLiveInstallerImage(MergeImageTypes, MergeCustomizations, MergeOptions)
    \/ FedoraImageInstallerImage(MergeImageTypes, MergeCustomizations, MergeOptions)
    \/ FedoraIotCommitImage(MergeImageTypes, MergeCustomizations, MergeOptions)
    \/ FedoraIotContainerImage(MergeImageTypes, MergeCustomizations, MergeOptions)
    \/ FedoraIotInstallerImage(MergeImageTypes, MergeCustomizations, MergeOptions)
    \/ FedoraIotRawImage(MergeImageTypes, MergeCustomizations, MergeOptions)
    \/ RHEL9LiveImage(MergeImageTypes, MergeCustomizations, MergeOptions)
    \/ RHEL9TarImage(MergeImageTypes, MergeCustomizations, MergeOptions)
    \/ RHEL9ImageInstallerImage(MergeImageTypes, MergeCustomizations, MergeOptions)
    \/ RHEL9EdgeCommitImage(MergeImageTypes, MergeCustomizations, MergeOptions)
    \/ RHEL9EdgeContainerImage(MergeImageTypes, MergeCustomizations, MergeOptions)
    \/ RHEL9EdgeInstallerImage(MergeImageTypes, MergeCustomizations, MergeOptions)
    \/ RHEL9EdgeRawImage(MergeImageTypes, MergeCustomizations, MergeOptions)
    \/ RHEL9EdgeSimplifiedInstallerImage(MergeImageTypes, MergeCustomizations, MergeOptions)
    \/ ResolveCommits
    \/ SerializeManifest
    \/ Rebuild

\* Builds of every image type over the merge inputs, each run twice.
Spec == Init /\ [][Next]_vars

VersionNext ==
    \/ FedoraLiveInstallerImage(VersionImageTypes, VersionCustomizations, MergeOptions)
    \/ FedoraImageInstallerImage(VersionImageTypes, VersionCustomizations, MergeOptions)
    \/ FedoraIotRawImage(VersionImageTypes, VersionCustomizations, MergeOptions)
    \/ RHEL9EdgeCommitImage(VersionImageTypes, VersionCustomizations, MergeOptions)
    \/ RHEL9EdgeContainerImage(VersionImageTypes, VersionCustomizations, MergeOptions)
    \/ RHEL9EdgeRawImage(VersionImageTypes, VersionCustomizations, MergeOptions)
    \/ RHEL9EdgeSimplifiedInstallerImage(VersionImageTypes, VersionCustomizations, MergeOptions)
    \/ ResolveCommits
    \/ SerializeManifest

\* Builds of the version-gated image types over the release versions.
SpecVersion == Init /\ [][VersionNext]_vars

\* makeOSTreeParentCommit is called with some options and default ref.
CallParentCommit ==
    /\ pc = "idle"
    /\ \E family \in {"fedora", "rhel9"}, options \in OSTreeOptionInputs,
          defaultRef \in DefaultRefInputs :
         LET r == makeOSTreeParentCommit(family, options, defaultRef)
         IN  call' = [fn |-> "makeOSTreeParentCommit", family |-> family,
                      options |-> options, defaultRef |-> defaultRef,
                      parent |-> r.parent, ref |-> r.ref,
                      spec |-> ZeroSourceSpec, err |-> ""]
    /\ pc' = "returned"
    /\ UNCHANGED <<run, inp, img, commits, mf, first>>

\* makeOSTreePayloadCommit is called with some options and default ref.
CallPayloadCommit ==
    /\ pc = "idle"
    /\ \E family \in {"fedora", "rhel9"}, options \in OSTreeOptionInputs,
          defaultRef \in DefaultRefInputs :
         LET r == makeOSTreePayloadCommit(family, options, defaultRef)
         IN  call' = [fn |-> "makeOSTreePayloadCommit", family |-> family,
                      options |-> options, defaultRef |-> defaultRef,
                      parent |-> Nil, ref |-> "",
                      spec |-> r.spec, err |-> r.err]
    /\ pc' = "returned"
    /\ UNCHANGED <<run, inp, img, commits, mf, first>>

OSTreeNext == CallParentCommit \/ CallPayloadCommit

\* The commit derivation helpers over every options value.
SpecOSTree == Init /\ [][OSTreeNext]_vars

\* resolveCommit is called for one more source.
CallResolveCommit ==
    /\ pc \in {"idle", "resolving"}
    /\ \E src \in SourceSpecInputs :
         call' = IF pc = "idle"
                 THEN [fn |-> "resolveCommit", sources |-> <<src>>,
                       specs |-> <<resolveCommit(src)>>]
                 ELSE [call EXCEPT !.sources = Append(@, src),
                                   !.specs = Append(@, resolveCommit(src))]
    /\ pc = "resolving" => Len(call.sources) < MaxResolves
    /\ pc' = "resolving"
    /\ UNCHANGED <<run, inp, img, commits, mf, first>>

ResolveNext == CallResolveCommit

\* The deterministic OSTree resolver over several sources in a row.
SpecResolve == Init /\ [][ResolveNext]_vars

----------------------------------------------------------------------------
(* Saving the manifest (cmd/build) and serialising it again (CI script) *)

\* A JSON document: a string is a sequence of characters, an array a
\* sequence of documents, an object a sequence of members in the order of
\* the document. A character is one of the tokens below; "script" stands
\* for a run of plain ASCII letters and NonASCII for the character U+00E9.
JString(chars) == [kind |-> "string", chars |-> chars]

JArray(items) == [kind |-> "array", items |-> items]

JObject(members) == [kind |-> "object", members |-> members]

Member(key, value) == [key |-> key, value |-> value]

NonASCII == "U+00E9"

\* The bytes encoding/json writes for one character of a string: the
\* quote is escaped, '<', '>' and '&' are written as \u003c, \u003e
\* and \u0026 (HTML escaping is on in Marshal and MarshalIndent), and a
\* non-ASCII character is written as its UTF-8 bytes (here C3 A9).
GoStringChar(ch) ==
    CASE ch = "\"" -> "\\\""
      [] ch = "<" -> "\\u003c"
      [] ch = ">" -> "\\u003e"
      [] ch = "&" -> "\\u0026"
      [] ch = NonASCII -> "\\xC3\\xA9"
      [] OTHER -> ch

\* The text json.dumps writes for one character of a string: the quote is
\* escaped and, ensure_ascii being on by default, a non-ASCII character is
\* written as \uXXXX; every other character is written as it is.
PyStringChar(ch) ==
    CASE ch = "\"" -> "\\\""
      [] ch = NonASCII -> "\\u00e9"
      [] OTHER -> ch

RECURSIVE Concat(_)
Concat(strs) == IF Len(strs) = 0 THEN "" ELSE Head(strs) \o Concat(Tail(strs))

GoString(chars) ==
    "\"" \o Concat([i \in DOMAIN chars |-> GoStringChar(chars[i])]) \o "\""

PyString(chars) ==
    "\"" \o Concat([i \in DOMAIN chars |-> PyStringChar(chars[i])]) \o "\""

RECURSIVE Indentation(_, _)
Indentation(indent, depth) ==
    IF depth = 0 THEN "" ELSE indent \o Indentation(indent, depth - 1)

\* The elements of an array or object, one per line at the given depth,
\* separated by commas.
RECURSIVE JoinLines(_, _, _)
JoinLines(elems, indent, depth) ==
    IF Len(elems) = 0 THEN ""
    ELSE "\n" \o Indentation(indent, depth) \o Head(elems)
         \o (IF Len(elems) > 1 THEN "," ELSE "")
         \o JoinLines(Tail(elems), indent, depth)

\* json.MarshalIndent(ms, "", indent): the document with each element of a
\* non-empty array or object on a line of its own.
RECURSIVE MarshalIndent(_, _, _)
MarshalIndent(v, indent, depth) ==
    CASE v.kind = "string" -> GoString(v.chars)
      [] v.kind = "array" ->
            IF Len(v.items) = 0 THEN "[]"
            ELSE "[" \o JoinLines([i \in DOMAIN v.items |->
                                      MarshalIndent(v.items[i], indent, depth + 1)],
                                  indent, depth + 1)
                 \o "\n" \o Indentation(indent, depth) \o "]"
      [] v.kind = "object" ->
            IF Len(v.members) = 0 THEN "{}"
            ELSE "{" \o JoinLines([i \in DOMAIN v.members |->
                                      GoString(<<v.members[i].key>>) \o ": "
                                      \o MarshalIndent(v.members[i].value, indent, depth + 1)],
                                  indent, depth + 1)
                 \o "\n" \o Indentation(indent, depth) \o "}"

\* json.dumps(data, indent=indent)
RECURSIVE Dumps(_, _, _)
Dumps(v, indent, depth) ==
    CASE v.kind = "string" -> PyString(v.chars)
      [] v.kind = "array" ->
            IF Len(v.items) = 0 THEN "[]"
            ELSE "[" \o JoinLines([i \in DOMAIN v.items |->
                                      Dumps(v.items[i], indent, depth + 1)],
                                  indent, depth + 1)
                 \o "\n" \o Indentation(indent, depth) \o "]"
      [] v.kind = "object" ->
            IF Len(v.members) = 0 THEN "{}"
            ELSE "{" \o JoinLines([i \in DOMAIN v.members |->
                                      PyString(<<v.members[i].key>>) \o ": "
                                      \o Dumps(v.members[i].value, indent, depth + 1)],
                                  indent, depth + 1)
                 \o "\n" \o Indentation(indent, depth) \o "}"

\* str.replace(old, new): every occurrence of the one-character string old
RECURSIVE Replace(_, _, _)
Replace(str, old, new) ==
    IF Len(str) = 0 THEN ""
    ELSE IF Len(str) = 1 THEN (IF str = old THEN new ELSE str)
    ELSE LET mid == Len(str) \div 2
         IN  Replace(SubSeq(str, 1, mid), old, new)
             \o Replace(SubSeq(str, mid + 1, Len(str)), old, new)

save_noTrailingNewline(ms) == MarshalIndent(ms, "  ", 0)

\* save(ms, fpath): the bytes written to the manifest file
save(ms) == MarshalIndent(ms, "  ", 0) \o "\n"

\* serialise(data) of test/cases/generate-build-config
serialise(data) ==
    Replace(Replace(Dumps(data, "  ", 0) \o "\n", "<", "\\u003c"), ">", "\\u003e")

\* A string value has at most MaxChars characters.
MaxChars == 3

Alphabet == {"script", "<", ">", "&", "\"", NonASCII}

RECURSIVE StringsUpTo(_)
StringsUpTo(n) ==
    IF n = 0 THEN {<<>>}
    ELSE StringsUpTo(n - 1)
         \cup {Append(str, ch) : str \in {x \in StringsUpTo(n - 1) : Len(x) = n - 1},
                                 ch \in Alphabet}

\* The manifests that are saved: a version, the pipelines (none, or one
\* with a name and a list of stage options) and the sources.
ManifestInputs ==
    {JObject(<<Member("version", JString(<<"2">>)),
               Member("pipelines", pipelines),
               Member("sources", JObject(<<>>))>>) :
        pipelines \in
            {JArray(<<>>)}
            \cup {JArray(<<JObject(<<Member("name", JString(str))>>)>>) :
                    str \in StringsUpTo(MaxChars)}
            \cup {JArray(<<JObject(<<Member("name", JString(<<"os">>)),
                                     Member("stages", JArray(<<JString(str), JString(str)>>))>>)>>) :
                    str \in StringsUpTo(MaxChars)}}

\* main saves a manifest to the manifest file.
CallSave ==
    /\ pc = "idle"
    /\ \E ms \in ManifestInputs :
         call' = [fn |-> "save", ms |-> ms, bytes |-> save(ms), serialised |-> ""]
    /\ pc' = "saved"
    /\ UNCHANGED <<run, inp, img, commits, mf, first>>

\* filter_builds loads the same manifest and serialises it again to name
\* the build by the hash of the text.
CallSerialise ==
    /\ pc = "saved"
    /\ call.fn = "save"
    /\ call' = [call EXCEPT !.fn = "serialise", !.serialised = serialise(call.ms)]
    /\ pc' = "hashed"
    /\ UNCHANGED <<run, inp, img, commits, mf, first>>

SaveNext == CallSave \/ CallSerialise

\* A manifest is saved by the build and serialised again by the CI script.
SpecSave == Init /\ [][SaveNext]_vars

----------------------------------------------------------------------------
(* The content resolvers of the build driver (cmd/build): depsolve, the    *)
(* container resolver and their per-pipeline loops.  The outcome of the    *)
(* external services (dnf-json, the container registry) is an input:       *)
(* failing is the set of pipelines whose request the service rejects, and  *)
(* order is the order in which the runtime iterates over the request map.  *)

\* make(map[string][]T): the empty map
EmptyMap == [name \in {} |-> <<>>]

\* m[name] = value
MapSet(m, name, value) ==
    [n \in DOMAIN m \cup {name} |-> IF n = name THEN value ELSE m[n]]

\* solver.Depsolve(pkgSet): the packages of a package set chain
SolverDepsolve(pkgSet) ==
    [i \in DOMAIN pkgSet |-> [Name |-> pkgSet[i].Include[1], Version |-> "1.0"]]

RECURSIVE depsolveFrom(_, _, _, _, _)
depsolveFrom(packageSets, order, failing, i, depsolvedSets) ==
    IF i > Len(order) THEN [sets |-> Some(depsolvedSets), err |-> "", calls |-> <<>>]
    ELSE IF order[i] \in failing
         THEN [sets |-> Nil, err |-> "depsolve " \o order[i], calls |-> <<order[i]>>]
         ELSE LET rest == depsolveFrom(packageSets, order, failing, i + 1,
                                       MapSet(depsolvedSets, order[i],
                                              SolverDepsolve(packageSets[order[i]])))
              IN  [rest EXCEPT !.calls = <<order[i]>> \o @]

\* depsolve that returns what it has solved so far when a pipeline fails
depsolve_partialOnError(packageSets, order, failing) ==
    LET solved == {name \in DOMAIN packageSets : name \notin failing}
    IN  [sets |-> Some([name \in solved |-> SolverDepsolve(packageSets[name])]),
         err |-> "", calls |-> order]

\* depsolve that goes on with the remaining package sets after a failure
depsolve_solvesRemaining(packageSets, order, failing) ==
    LET failed == {i \in DOMAIN order : order[i] \in failing}
    IN  IF failed = {}
        THEN [sets |-> Some([name \in DOMAIN packageSets |->
                                SolverDepsolve(packageSets[name])]),
              err |-> "", calls |-> order]
        ELSE [sets |-> Nil,
              err |-> "depsolve " \o order[CHOOSE i \in failed : \A j \in failed : i <= j],
              calls |-> order]

\* depsolve whose result map is only made when the first set is stored
depsolve_nilWithoutSets(packageSets, order, failing) ==
    LET r == depsolveFrom(packageSets, order, failing, 1, EmptyMap)
    IN  IF Len(order) = 0 THEN [r EXCEPT !.sets = Nil] ELSE r

\* depsolve(cacheDir, packageSets, d, arch); calls lists the package sets
\* handed to solver.Depsolve, in the order of the calls.
depsolve(packageSets, order, failing) ==
    depsolveFrom(packageSets, order, failing, 1, EmptyMap)

\* A call on a container resolver: NewResolver, Add or Finish
Event(op, resolver, arg) == [op |-> op, resolver |-> resolver, arg |-> arg]

\* The container spec a resolver returns for a source
ContainerSpec(source) ==
    [Source |-> source.Source, Digest |-> "sha256:" \o source.Source,
     LocalName |-> source.Name]

\* resolveContainers that finishes the resolver before it adds the references
resolveContainers_finishesFirst(containers, resolver, fails) ==
    [events |-> <<Event("NewResolver", resolver, ""), Event("Finish", resolver, "")>> \o
                [i \in DOMAIN containers |->
                    Event("Add", resolver, containers[i].Source)],
     specs |-> IF fails THEN <<>>
               ELSE [i \in DOMAIN containers |-> ContainerSpec(containers[i])],
     err |-> IF fails THEN "resolver error" ELSE ""]

\* resolveContainers(containers, archName): resolver is the instance that
\* container.NewResolver returns, fails the outcome of its Finish.
resolveContainers(containers, resolver, fails) ==
    [events |-> <<Event("NewResolver", resolver, "")>> \o
                [i \in DOMAIN containers |->
                    Event("Add", resolver, containers[i].Source)] \o
                <<Event("Finish", resolver, "")>>,
     specs |-> IF fails THEN <<>>
               ELSE [i \in DOMAIN containers |-> ContainerSpec(containers[i])],
     err |-> IF fails THEN "resolver error" ELSE ""]

RECURSIVE resolvePipelineContainersFrom(_, _, _, _, _, _)
resolvePipelineContainersFrom(containerSources, order, failing, i, containerSpecs, events) ==
    IF i > Len(order)
    THEN [specs |-> Some(containerSpecs), err |-> "", events |-> events]
    ELSE LET plName == order[i]
             r == resolveContainers(containerSources[plName], i, plName \in failing)
         IN  IF r.err # ""
             THEN [specs |-> Nil, err |-> r.err, events |-> events \o r.events]
             ELSE resolvePipelineContainersFrom(
                      containerSources, order, failing, i + 1,
                      MapSet(containerSpecs, plName, r.specs), events \o r.events)

\* resolvePipelineContainers(containerSources, archName)
resolvePipelineContainers(containerSources, order, failing) ==
    resolvePipelineContainersFrom(containerSources, order, failing, 1, EmptyMap, <<>>)

\* manifest.GetPackageSetChains: the package set chains of each pipeline
GetPackageSetChains(image, packageSets) ==
    LET names == {"build"}
                 \cup (IF image.kind \in {"LiveImage", "BaseContainer", "Archive",
                                          "OSTreeArchive", "OSTreeContainer",
                                          "AnacondaTarInstaller"}
                       THEN {"os"} ELSE {})
                 \cup (IF image.kind \in {"AnacondaTarInstaller", "AnacondaLiveInstaller",
                                          "AnacondaOSTreeInstaller"}
                       THEN {"anaconda-tree"} ELSE {})
    IN  [name \in names |->
            IF name = "anaconda-tree" THEN <<packageSets[installerPkgsKey]>>
            ELSE <<packageSets[osPkgsKey]>>]

\* manifest.GetContainerSourceSpecs: the container sources of each pipeline
\* that embeds containers (the OS pipeline, from osc.Containers)
GetContainerSourceSpecs(image) ==
    [name \in (IF Len(image.OSCustomizations.Containers) > 0 THEN {"os"} ELSE {}) |->
        image.OSCustomizations.Containers]

\* manifest.Serialize(packageSpecs, containerSpecs, commitSpecs)
SerializeSpecs(image, packageSpecs, containerSpecs, commitSpecs) ==
    [pipelines |-> image, commits |-> commitSpecs, version |-> "2",
     packages |-> packageSpecs, containers |-> containerSpecs]

\* makeManifest that goes on after a step has failed
AfterStep_ignoresError(err, next) == next

\* makeManifest: a step that returned an error ends makeManifest with that
\* error; otherwise the next step runs.
AfterStep(err, next) == IF err # "" THEN "returned" ELSE next

----------------------------------------------------------------------------
(* The build: main calls makeManifest, saves the manifest and starts the   *)
(* build.  call holds the locals of makeManifest and main, the steps that  *)
(* have run and the calls made on container resolvers.                     *)

\* The blueprints of the builds carry at most MaxContainers containers.
MaxContainers == 2

ContainerSourcePool ==
    <<[Source |-> "registry.example.org/app", Name |-> "app"],
      [Source |-> "quay.io/example/tools", Name |-> "tools"]>>

ContainerInputs == {FirstN(ContainerSourcePool, n) : n \in 0..MaxContainers}

BuildImageTypes == FedoraImageTypes("39") \cup RHEL9ImageTypes("9.2")

\* check(err) and fail(msg) of main: the message is printed and the process
\* exits with status 1.
Exit(c, status) == [c EXCEPT !.exit = status]

\* The outcome of imgType.Manifest for an image type, options and containers
Manifest(t, o, containers, r) == [t |-> t, options |-> o, containers |-> containers, r |-> r]

\* imgType.Manifest for every image type, options value and container list
\* of the builds; the blueprints have no custom repositories (order <<>>).
Generated ==
    {Manifest(t, o, k, fedora_liveImage(t, ZeroCustomizations, o, PackageSets, k, Seed, <<>>)) :
        t \in TypesOf("fedora", "liveImage", BuildImageTypes), o \in MergeOptions,
        k \in ContainerInputs}
    \cup
    {Manifest(t, o, k, fedora_containerImage(t, ZeroCustomizations, o, PackageSets, k, Seed, <<>>)) :
        t \in TypesOf("fedora", "containerImage", BuildImageTypes), o \in MergeOptions,
        k \in ContainerInputs}
    \cup
    {Manifest(t, o, k, fedora_imageInstallerImage(t, ZeroCustomizations, o, PackageSets, k, Seed, <<>>)) :
        t \in TypesOf("fedora", "imageInstallerImage", BuildImageTypes), o \in MergeOptions,
        k \in ContainerInputs}
    \cup
    {Manifest(t, o, k, fedora_iotCommitImage(t, ZeroCustomizations, o, PackageSets, k, Seed, <<>>)) :
        t \in TypesOf("fedora", "iotCommitImage", BuildImageTypes), o \in MergeOptions,
        k \in ContainerInputs}
    \cup
    {Manifest(t, o, k, fedora_iotRawImage(t, ZeroCustomizations, o, PackageSets, k, Seed, <<>>)) :
        t \in TypesOf("fedora", "iotRawImage", BuildImageTypes), o \in MergeOptions,
        k \in ContainerInputs}
    \cup
    {Manifest(t, o, k, rhel9_liveImage(t, ZeroCustomizations, o, PackageSets, k, Seed, <<>>)) :
        t \in TypesOf("rhel9", "liveImage", BuildImageTypes), o \in MergeOptions,
        k \in ContainerInputs}
    \cup
    {Manifest(t, o, k, rhel9_tarImage(t, ZeroCustomizations, o, PackageSets, k, Seed, <<>>)) :
        t \in TypesOf("rhel9", "tarImage", BuildImageTypes), o \in MergeOptions,
        k \in ContainerInputs}
    \cup
    {Manifest(t, o, k, rhel9_edgeCommitImage(t, ZeroCustomizations, o, PackageSets, k, Seed, <<>>)) :
        t \in TypesOf("rhel9", "edgeCommitImage", BuildImageTypes), o \in MergeOptions,
        k \in ContainerInputs}
    \cup
    {Manifest(t, o, k, rhel9_edgeContainerImage(t, ZeroCustomizations, o, PackageSets, k, Seed, <<>>)) :
        t \in TypesOf("rhel9", "edgeContainerImage", BuildImageTypes), o \in MergeOptions,
        k \in ContainerInputs}
    \cup
    {Manifest(t, o, k, rhel9_edgeInstallerImage(t, ZeroCustomizations, o, PackageSets, k, Seed, <<>>)) :
        t \in TypesOf("rhel9", "edgeInstallerImage", BuildImageTypes), o \in MergeOptions,
        k \in ContainerInputs}
    \cup
    {Manifest(t, o, k, rhel9_edgeSimplifiedInstallerImage(t, ZeroCustomizations, o, PackageSets, k, Seed, <<>>)) :
        t \in TypesOf("rhel9", "edgeSimplifiedInstallerImage", BuildImageTypes), o \in MergeOptions,
        k \in ContainerInputs}

\* makeManifest: imgType.Manifest builds the manifest of the image type.
MakeManifestGenerate ==
    /\ pc = "idle"
    /\ \E g \in Generated :
            LET t == g.t
                o == g.options
                containers == g.containers
                r == g.r
                err == IF r.panic # "" THEN "panic: " \o r.panic
                       ELSE IF r.err # ""
                            THEN "[ERROR] manifest generation failed: " \o r.err
                            ELSE ""
            IN  /\ inp' = [t |-> t, c |-> ZeroCustomizations, options |-> o]
                /\ img' = r
                /\ call' = [fn |-> "makeManifest", containers |-> containers,
                            steps |-> <<"Manifest">>,
                            failed |-> IF err # "" THEN "Manifest" ELSE "",
                            err |-> err, packageSpecs |-> Nil, containerSpecs |-> Nil,
                            events |-> <<>>, saved |-> FALSE, started |-> FALSE,
                            exit |-> IF r.panic # "" THEN 2 ELSE 0]
                /\ pc' = IF r.panic # "" THEN "exited" ELSE AfterStep(err, "generated")
    /\ UNCHANGED <<run, commits, mf, first>>

\* makeManifest: depsolve and the two checks of what it returned
DepsolveStep(packageSets, order, failing) ==
    LET r == depsolve(packageSets, order, failing)
    IN  [r EXCEPT !.err = IF r.err # "" THEN "[ERROR] depsolve failed: " \o r.err
                          ELSE IF IsNil(r.sets)
                               THEN "[ERROR] depsolve did not return any packages"
                               ELSE ""]

\* makeManifest: the package sets of the manifest are depsolved.
MakeManifestDepsolve ==
    /\ pc = "generated"
    /\ LET packageSets == GetPackageSetChains(Deref(img.img), PackageSets)
       IN  \E order \in Orders(DOMAIN packageSets), failing \in SUBSET DOMAIN packageSets :
              LET r == DepsolveStep(packageSets, order, failing)
              IN  /\ call' = [call EXCEPT !.steps = Append(@, "depsolve"),
                                          !.failed = IF r.err # "" THEN "depsolve" ELSE "",
                                          !.err = r.err, !.packageSpecs = r.sets]
                  /\ pc' = AfterStep(r.err, "depsolved")
    /\ UNCHANGED <<run, inp, img, commits, mf, first>>

\* makeManifest: the container sources of the manifest are resolved.
MakeManifestContainers ==
    /\ pc = "depsolved"
    /\ LET containerSources == GetContainerSourceSpecs(Deref(img.img))
       IN  \E order \in Orders(DOMAIN containerSources),
              failing \in SUBSET DOMAIN containerSources :
              LET r == resolvePipelineContainers(containerSources, order, failing)
                  err == IF r.err # ""
                         THEN "[ERROR] container resolution failed: " \o r.err ELSE ""
              IN  /\ call' = [call EXCEPT
                                 !.steps = Append(@, "resolvePipelineContainers"),
                                 !.failed = IF err # "" THEN "resolvePipelineContainers"
                                            ELSE "",
                                 !.err = err, !.containerSpecs = r.specs,
                                 !.events = r.events]
                  /\ pc' = AfterStep(err, "containersResolved")
    /\ UNCHANGED <<run, inp, img, commits, mf, first>>

\* makeManifest: the OSTree commits of the manifest are resolved.
MakeManifestCommits ==
    /\ pc = "containersResolved"
    /\ commits' = resolvePipelineCommits(GetOSTreeSourceSpecs(Deref(img.img)))
    /\ call' = [call EXCEPT !.steps = Append(@, "resolvePipelineCommits")]
    /\ pc' = "commitsResolved"
    /\ UNCHANGED <<run, inp, img, mf, first>>

\* makeManifest: manifest.Serialize attaches the specs and returns the
\* manifest, or fails.
MakeManifestSerialize ==
    /\ pc = "commitsResolved"
    /\ \E fails \in BOOLEAN :
         LET err == IF fails THEN "[ERROR] manifest serialization failed: error" ELSE ""
         IN  /\ mf' = IF fails THEN mf
                      ELSE SerializeSpecs(Deref(img.img), Deref(call.packageSpecs),
                                          Deref(call.containerSpecs), commits)
             /\ call' = [call EXCEPT !.steps = Append(@, "Serialize"),
                                     !.failed = IF fails THEN "Serialize" ELSE "",
                                     !.err = err]
    /\ pc' = "returned"
    /\ UNCHANGED <<run, inp, img, commits, first>>

\* main: makeManifest returned an error; check(err) ends the process.
MainCheck ==
    /\ pc = "returned"
    /\ call.err # ""
    /\ call' = Exit(call, 1)
    /\ pc' = "exited"
    /\ UNCHANGED <<run, inp, img, commits, mf, first>>

\* main: the manifest is saved to the build directory.
MainSave ==
    /\ pc = "returned"
    /\ call.err = ""
    /\ \E fails \in BOOLEAN :
         /\ call' = IF fails
                    THEN Exit([call EXCEPT !.steps = Append(@, "save"),
                                           !.failed = "save", !.err = "save error"], 1)
                    ELSE [call EXCEPT !.steps = Append(@, "save"), !.saved = TRUE]
         /\ pc' = IF fails THEN "exited" ELSE "manifestSaved"
    /\ UNCHANGED <<run, inp, img, commits, mf, first>>

\* main: osbuild is run on the saved manifest.
MainRunOSBuild ==
    /\ pc = "manifestSaved"
    /\ \E fails \in BOOLEAN :
         call' = IF fails
                 THEN Exit([call EXCEPT !.steps = Append(@, "RunOSBuild"),
                                        !.started = TRUE, !.failed = "RunOSBuild",
                                        !.err = "osbuild error"], 1)
                 ELSE [call EXCEPT !.steps = Append(@, "RunOSBuild"), !.started = TRUE]
    /\ pc' = "exited"
    /\ UNCHANGED <<run, inp, img, commits, mf, first>>

BuildNext ==
    \/ MakeManifestGenerate
    \/ MakeManifestDepsolve
    \/ MakeManifestContainers
    \/ MakeManifestCommits
    \/ MakeManifestSerialize
    \/ MainCheck
    \/ MainSave
    \/ MainRunOSBuild

\* One build of every image type, with every outcome of the resolvers.
SpecBuild == Init /\ [][BuildNext]_vars

----------------------------------------------------------------------------
(* The per-pipeline resolvers called on request maps of their own *)

\* A request names at most MaxSources sources for a pipeline.
MaxSources == 2

\* Every map from some of the names to one of the values
MapsOver(names, values) == UNION {[S -> values] : S \in SUBSET names}

PackageSetRequests ==
    MapsOver({"build", "os", "anaconda-tree"},
             {<<PackageSets[osPkgsKey]>>,
              <<PackageSets[osPkgsKey], PackageSets[installerPkgsKey]>>})

ContainerRequests ==
    MapsOver({"os", "image"},
             {FirstN(ContainerSourcePool, n) : n \in 1..MaxSources}
             \cup {<<ContainerSourcePool[2]>>})

CommitSourcePool ==
    <<SourceSpec("https://ostree.example.org/repo", "fedora/39/x86_64/iot", FALSE),
      SourceSpec("https://ostree.example.org/repo", "parent/ref", TRUE),
      SourceSpec("https://cdn.example.org/ostree", "fedora/39/x86_64/iot", FALSE)>>

CommitRequests ==
    MapsOver({"os", "ostree-deployment"},
             UNION {[1..n -> Range(CommitSourcePool)] : n \in 1..MaxSources})

\* depsolve is called on a request map.
CallDepsolve ==
    /\ pc = "idle"
    /\ \E packageSets \in PackageSetRequests :
         \E order \in Orders(DOMAIN packageSets), failing \in SUBSET DOMAIN packageSets :
            LET r == depsolve(packageSets, order, failing)
            IN  call' = [fn |-> "depsolve", request |-> packageSets, order |-> order,
                         failing |-> failing, result |-> r.sets, err |-> r.err,
                         events |-> [i \in DOMAIN r.calls |->
                                       Event("Depsolve", 1, r.calls[i])]]
    /\ pc' = "returned"
    /\ UNCHANGED <<run, inp, img, commits, mf, first>>

\* makeManifest's depsolve step over the package set chains of any
\* manifest, the manifest without package sets included.
CallDepsolveStep ==
    /\ pc = "idle"
    /\ \E packageSets \in PackageSetRequests :
         \E order \in Orders(DOMAIN packageSets), failing \in SUBSET DOMAIN packageSets :
            LET r == DepsolveStep(packageSets, order, failing)
            IN  call' = [fn |-> "makeManifest.depsolve", request |-> packageSets,
                         order |-> order, failing |-> failing, result |-> r.sets,
                         err |-> r.err,
                         events |-> [i \in DOMAIN r.calls |->
                                       Event("Depsolve", 1, r.calls[i])]]
    /\ pc' = "returned"
    /\ UNCHANGED <<run, inp, img, commits, mf, first>>

\* resolvePipelineContainers is called on a request map.
CallResolvePipelineContainers ==
    /\ pc = "idle"
    /\ \E containerSources \in ContainerRequests :
         \E order \in Orders(DOMAIN containerSources),
            failing \in SUBSET DOMAIN containerSources :
            LET r == resolvePipelineContainers(containerSources, order, failing)
            IN  call' = [fn |-> "resolvePipelineContainers", request |-> containerSources,
                         order |-> order, failing |-> failing, result |-> r.specs,
                         err |-> r.err, events |-> r.events]
    /\ pc' = "returned"
    /\ UNCHANGED <<run, inp, img, commits, mf, first>>

\* resolvePipelineCommits is called on a request map.
CallResolvePipelineCommits ==
    /\ pc = "idle"
    /\ \E commitSources \in CommitRequests :
         call' = [fn |-> "resolvePipelineCommits", request |-> commitSources,
                  order |-> <<>>, failing |-> {},
                  result |-> Some(resolvePipelineCommits(commitSources)), err |-> "",
                  events |-> <<>>]
    /\ pc' = "returned"
    /\ UNCHANGED <<run, inp, img, commits, mf, first>>

ResolversNext ==
    \/ CallDepsolve
    \/ CallDepsolveStep
    \/ CallResolvePipelineContainers
    \/ CallResolvePipelineCommits

\* The three per-pipeline resolvers over request maps of up to three
\* pipelines, with every outcome of the external services.
SpecResolvers == Init /\ [][ResolversNext]_vars

----------------------------------------------------------------------------
(* Go slices and the lists shared with the default image configuration.    *)
(* A slice is a window [array, len] on a backing array of the heap; its    *)
(* capacity is the length of that array.  The nil slice has no array.      *)
(* Every array has an owner: 0 for the registry, which built the default   *)
(* configuration, or the construction that allocated it.                   *)

NilSlice == [array |-> 0, len |-> 0]

\* cap(s)
Cap(heap, s) == IF s.array = 0 THEN 0 ELSE Len(heap[s.array].cells)

\* The elements of a slice
View(heap, s) == IF s.array = 0 THEN <<>> ELSE SubSeq(heap[s.array].cells, 1, s.len)

\* append that writes behind the slice whatever its capacity is
GoAppend_alwaysInPlace(heap, s, elems, proc) ==
    IF s.array = 0
    THEN [heap |-> Append(heap, [cells |-> elems, owner |-> proc]),
          slice |-> [array |-> Len(heap) + 1, len |-> Len(elems)], writes |-> {}]
    ELSE [heap |-> [heap EXCEPT ![s.array].cells = View(heap, s) \o elems],
          slice |-> [array |-> s.array, len |-> s.len + Len(elems)],
          writes |-> {[proc |-> proc, array |-> s.array, index |-> s.len + i] :
                        i \in DOMAIN elems}]

\* append(s, elems...): the elements are written behind the slice when the
\* capacity allows it, otherwise into a new array of at least twice the
\* capacity that starts with a copy of the slice.
GoAppend(heap, s, elems, proc) ==
    LET need == s.len + Len(elems)
        cap == Cap(heap, s)
    IN  IF need <= cap
        THEN [heap |-> [heap EXCEPT ![s.array].cells =
                          [i \in 1..cap |-> IF i > s.len /\ i <= need
                                            THEN elems[i - s.len] ELSE @[i]]],
              slice |-> [array |-> s.array, len |-> need],
              writes |-> {[proc |-> proc, array |-> s.array, index |-> s.len + i] :
                            i \in DOMAIN elems}]
        ELSE LET newcap == IF need > 2 * cap THEN need ELSE 2 * cap
                 cells == [i \in 1..newcap |->
                             IF i <= s.len THEN heap[s.array].cells[i]
                             ELSE IF i <= need THEN elems[i - s.len] ELSE ""]
             IN  [heap |-> Append(heap, [cells |-> cells, owner |-> proc]),
                  slice |-> [array |-> Len(heap) + 1, len |-> need],
                  writes |-> {}]

\* A list the registry wrote as a composite literal: an array of exactly
\* the elements, or the nil slice for no list.
Literal(heap, elems) ==
    IF Len(elems) = 0 THEN [heap |-> heap, slice |-> NilSlice]
    ELSE [heap |-> Append(heap, [cells |-> elems, owner |-> 0]),
          slice |-> [array |-> Len(heap) + 1, len |-> Len(elems)]]

\* Two constructions of the same image type run side by side.
Procs == {1, 2}

DefaultServiceInputs == {<<>>, <<"sshd.service">>, <<"NetworkManager.service", "sshd.service">>}

DefaultYUMRepoInputs == {<<>>, <<"default.repo">>}

\* The repository files of the blueprint of a construction
RepoFilesOf(proc, n) == [i \in 1..n |-> "blueprint" \o Itoa(proc) \o "-" \o Itoa(i) \o ".repo"]

\* The registry has built the descriptor of an rhel9 edge image type with
\* its default configuration; two constructions of it, each with its own
\* blueprint, start.
RegisterImageType ==
    /\ pc = "idle"
    /\ \E services \in DefaultServiceInputs, yumRepos \in DefaultYUMRepoInputs,
          gate \in BOOLEAN, repos \in [Procs -> 0..MaxRepos] :
         LET s == Literal(<<>>, services)
             y == Literal(s.heap, yumRepos)
         IN  call' = [fn |-> "construct", heap |-> y.heap, gate |-> gate,
                      config |-> [EnabledServices |-> s.slice, YUMRepos |-> y.slice],
                      initial |-> [EnabledServices |-> services, YUMRepos |-> yumRepos],
                      procs |-> [p \in Procs |->
                                   [pc |-> "start", repos |-> RepoFilesOf(p, repos[p]),
                                    appended |-> <<>>,
                                    osc |-> [EnabledServices |-> NilSlice,
                                             YUMRepos |-> NilSlice]]],
                      writes |-> {}]
    /\ pc' = "constructing"
    /\ UNCHANGED <<run, inp, img, commits, mf, first>>

\* rhel9 osCustomizations: osc.EnabledServices and osc.YUMRepos are assigned
\* the lists of the default configuration.
AssignDefaults(p) ==
    /\ pc = "constructing"
    /\ call.procs[p].pc = "start"
    /\ call' = [call EXCEPT !.procs[p].osc = call.config,
                            !.procs[p].pc = IF Len(call.procs[p].repos) > 0
                                            THEN "repos" ELSE "services"]
    /\ UNCHANGED <<pc, run, inp, img, commits, mf, first>>

\* rhel9 osCustomizations: the stage options of one more repository file of
\* the blueprint are appended to osc.YUMRepos.
AppendYUMRepos(p) ==
    /\ pc = "constructing"
    /\ call.procs[p].pc = "repos"
    /\ LET proc == call.procs[p]
           r == GoAppend(call.heap, proc.osc.YUMRepos, <<Head(proc.repos)>>, p)
       IN  call' = [call EXCEPT !.heap = r.heap,
                               !.writes = @ \cup r.writes,
                               !.procs[p].osc.YUMRepos = r.slice,
                               !.procs[p].appended = Append(@, Head(proc.repos)),
                               !.procs[p].repos = Tail(@),
                               !.procs[p].pc = IF Len(proc.repos) > 1
                                               THEN "repos" ELSE "services"]
    /\ UNCHANGED <<pc, run, inp, img, commits, mf, first>>

\* rhel9 edgeCommitImage, edgeContainerImage: from 9.2 on the ignition
\* services are appended to img.OSCustomizations.EnabledServices.
AppendEnabledServices(p) ==
    /\ pc = "constructing"
    /\ call.procs[p].pc = "services"
    /\ LET proc == call.procs[p]
           r == GoAppend(call.heap, proc.osc.EnabledServices, IgnitionServices, p)
       IN  call' = IF call.gate
                   THEN [call EXCEPT !.heap = r.heap,
                                     !.writes = @ \cup r.writes,
                                     !.procs[p].osc.EnabledServices = r.slice,
                                     !.procs[p].pc = "done"]
                   ELSE [call EXCEPT !.procs[p].pc = "done"]
    /\ UNCHANGED <<pc, run, inp, img, commits, mf, first>>

ShareNext ==
    \/ RegisterImageType
    \/ \E p \in Procs : AssignDefaults(p)
    \/ \E p \in Procs : AppendYUMRepos(p)
    \/ \E p \in Procs : AppendEnabledServices(p)

\* Two constructions of one image type, interleaved in every way.
SpecShare == Init /\ [][ShareNext]_vars

----------------------------------------------------------------------------
(* Builds over the OpenSCAP, SELinux and NTP inputs *)

\* The blueprints name at most MaxNTPServers NTP servers.
MaxNTPServers == 2

NTPServerPool == <<"0.pool.example.org", "1.pool.example.org", "2.pool.example.org">>

TimezoneInputs ==
    {Nil, Some([Timezone |-> Some("Europe/Berlin"), NTPServers |-> <<>>])}
    \cup {Some([Timezone |-> Nil, NTPServers |-> FirstN(NTPServerPool, n)]) :
            n \in 1..MaxNTPServers}

OpenSCAPInputs ==
    {Nil,
     Some([DataStream |-> "", ProfileID |-> "xccdf_org.ssgproject.content_profile_ospp"]),
     Some([DataStream |-> "/usr/share/xml/scap/custom-ds.xml",
           ProfileID |-> "xccdf_org.ssgproject.content_profile_ospp"])}

FacetCustomizations ==
    {[ZeroCustomizations EXCEPT
        !.Timezone = tz, !.OpenSCAP = oscap, !.User = FirstN(UserPool, u)] :
      tz \in TimezoneInputs, oscap \in OpenSCAPInputs, u \in 0..MaxUsers}

TimeSynchronizationInputs ==
    {Nil,
     Some([Servers |-> <<[Hostname |-> "time.default.example.org"]>>,
           LeapsecTz |-> Some("/usr/share/zoneinfo/right/UTC")]),
     Some([Servers |-> <<[Hostname |-> "time.default.example.org"]>>, LeapsecTz |-> Nil])}

FacetDefaultConfigs ==
    {[ZeroImageConfig EXCEPT !.NoSElinux = noSElinux, !.TimeSynchronization = ts] :
      noSElinux \in {Nil, Some(FALSE), Some(TRUE)}, ts \in TimeSynchronizationInputs}

FacetImageTypes ==
    {[t EXCEPT !.defaultImageConfig = cfg] :
      cfg \in FacetDefaultConfigs,
      t \in FedoraImageTypes("39") \cup RHEL9ImageTypes("9.2")
            \cup RHEL9ImageTypes("9-stream")}

FacetOptions == {ImageOptions(Nil)}

FacetNext ==
    \/ FedoraLiveImage(FacetImageTypes, FacetCustomizations, FacetOptions)
    \/ FedoraContainerImage(FacetImageTypes, FacetCustomizations, FacetOptions)
    \/ FedoraImageInstallerImage(FacetImageTypes, FacetCustomizations, FacetOptions)
    \/ FedoraIotCommitImage(FacetImageTypes, FacetCustomizations, FacetOptions)
    \/ FedoraIotContainerImage(FacetImageTypes, FacetCustomizations, FacetOptions)
    \/ RHEL9LiveImage(FacetImageTypes, FacetCustomizations, FacetOptions)
    \/ RHEL9TarImage(FacetImageTypes, FacetCustomizations, FacetOptions)
    \/ RHEL9ImageInstallerImage(FacetImageTypes, FacetCustomizations, FacetOptions)
    \/ RHEL9EdgeCommitImage(FacetImageTypes, FacetCustomizations, FacetOptions)
    \/ RHEL9EdgeContainerImage(FacetImageTypes, FacetCustomizations, FacetOptions)

\* Builds of the image types that call osCustomizations, over the default
\* configurations and blueprints that set OpenSCAP, SELinux and NTP.
SpecFacets == Init /\ [][FacetNext]_vars

----------------------------------------------------------------------------
(* Builds over the locale, keyboard, timezone and hostname inputs *)

LocaleInputs ==
    {Nil,
     Some([Languages |-> <<"de_DE.UTF-8", "en_US.UTF-8">>, Keyboard |-> Nil]),
     Some([Languages |-> <<>>, Keyboard |-> Some("de")]),
     Some([Languages |-> <<"de_DE.UTF-8">>, Keyboard |-> Some("de")])}

HostnameInputs == {Nil, Some("build.example.org"), Some("")}

LocaleCustomizations ==
    {[ZeroCustomizations EXCEPT !.Locale = l, !.Hostname = h, !.Timezone = tz] :
      l \in LocaleInputs, h \in HostnameInputs,
      tz \in {Nil, Some([Timezone |-> Some("Europe/Berlin"), NTPServers |-> <<>>]),
              Some([Timezone |-> Nil, NTPServers |-> <<"0.pool.example.org">>])}}

LocaleDefaultConfigs ==
    {[ZeroImageConfig EXCEPT !.Locale = l, !.Keyboard = k, !.Timezone = tz] :
      l \in {Nil, Some("C.UTF-8")},
      k \in {Nil, Some([Keymap |-> "us", X11Keymap |-> Nil]),
             Some([Keymap |-> "us", X11Keymap |-> Some([Layouts |-> <<"us">>])])},
      tz \in {Nil, Some("America/New_York")}}

LocaleImageTypes ==
    {[t EXCEPT !.defaultImageConfig = cfg] :
      cfg \in LocaleDefaultConfigs,
      t \in FedoraImageTypes("39") \cup RHEL9ImageTypes("9.2")}

LocaleNext ==
    \/ FedoraLiveImage(LocaleImageTypes, LocaleCustomizations, FacetOptions)
    \/ FedoraContainerImage(LocaleImageTypes, LocaleCustomizations, FacetOptions)
    \/ FedoraImageInstallerImage(LocaleImageTypes, LocaleCustomizations, FacetOptions)
    \/ FedoraIotCommitImage(LocaleImageTypes, LocaleCustomizations, FacetOptions)
    \/ FedoraIotContainerImage(LocaleImageTypes, LocaleCustomizations, FacetOptions)
    \/ RHEL9LiveImage(LocaleImageTypes, LocaleCustomizations, FacetOptions)
    \/ RHEL9TarImage(LocaleImageTypes, LocaleCustomizations, FacetOptions)
    \/ RHEL9ImageInstallerImage(LocaleImageTypes, LocaleCustomizations, FacetOptions)
    \/ RHEL9EdgeCommitImage(LocaleImageTypes, LocaleCustomizations, FacetOptions)
    \/ RHEL9EdgeContainerImage(LocaleImageTypes, LocaleCustomizations, FacetOptions)

\* Builds of the image types that call osCustomizations, over the default
\* configurations and blueprints that set locale, keyboard, timezone and
\* hostname.
SpecLocale == Init /\ [][LocaleNext]_vars

----------------------------------------------------------------------------
(* Builds over the file, directory and repository inputs *)

\* The blueprints carry at most MaxFiles files and MaxFiles directories.
MaxFiles == 2

FilePool ==
    <<[Path |-> "/etc/motd", Data |-> "welcome"],
      [Path |-> "/etc/issue", Data |-> "login"],
      [Path |-> "/etc/hosts.allow", Data |-> "ALL"]>>

DirectoryPool == <<[Path |-> "/srv/data"], [Path |-> "/srv/cache"], [Path |-> "/srv/log"]>>

FileInputs ==
    {FirstN(FilePool, n) : n \in 0..MaxFiles}
    \cup {<<FilePool[1], [Path |-> "relative/path", Data |-> "x"]>>}

DirectoryInputs ==
    {FirstN(DirectoryPool, n) : n \in 0..MaxFiles} \cup {<<[Path |-> "relative/dir"]>>}

RepositoryInputs ==
    {FirstN(RepoPool, n) : n \in 0..MaxRepos}
    \cup {<<RepoPool[1], [Id |-> "", Filename |-> "", GPGKeys |-> <<>>]>>}

FileCustomizations ==
    {[ZeroCustomizations EXCEPT !.Files = f, !.Directories = d, !.Repositories = r] :
      f \in FileInputs, d \in DirectoryInputs, r \in RepositoryInputs}

FileImageTypes == FedoraImageTypes("39") \cup RHEL9ImageTypes("9.2")

FilesNext ==
    \/ FedoraLiveImage(FileImageTypes, FileCustomizations, FacetOptions)
    \/ FedoraContainerImage(FileImageTypes, FileCustomizations, FacetOptions)
    \/ FedoraImageInstallerImage(FileImageTypes, FileCustomizations, FacetOptions)
    \/ FedoraIotCommitImage(FileImageTypes, FileCustomizations, FacetOptions)
    \/ FedoraIotContainerImage(FileImageTypes, FileCustomizations, FacetOptions)
    \/ RHEL9LiveImage(FileImageTypes, FileCustomizations, FacetOptions)
    \/ RHEL9TarImage(FileImageTypes, FileCustomizations, FacetOptions)
    \/ RHEL9ImageInstallerImage(FileImageTypes, FileCustomizations, FacetOptions)
    \/ RHEL9EdgeCommitImage(FileImageTypes, FileCustomizations, FacetOptions)
    \/ RHEL9EdgeContainerImage(FileImageTypes, FileCustomizations, FacetOptions)

\* Builds of the image types that call osCustomizations, over blueprints
\* with files, directories and custom repositories, valid and invalid.
SpecFiles == Init /\ [][FilesNext]_vars

----------------------------------------------------------------------------
(* Builds of the OSTree raw and installer images *)

\* The fields of options.OSTree that makeOSTreePayloadCommit and the
\* construction function read, on the path the options take.
OSTreeFieldsRead(t, options) ==
    IF IsNil(options.OSTree) THEN {}
    ELSE IF Deref(options.OSTree).URL = "" THEN {"URL"}
    ELSE {"URL", "ImageRef", "RHSM"}
         \cup (IF t.family = "rhel9"
                  /\ t.image \in {"edgeRawImage", "edgeSimplifiedInstallerImage"}
               THEN {"URL", "ContentURL"} ELSE {})

FilesystemInputs ==
    {<<>>, <<[Mountpoint |-> "/data"]>>, <<[Mountpoint |-> "data"]>>}

PayloadCustomizationInputs ==
    {[ZeroCustomizations EXCEPT !.Filesystem = fs] : fs \in FilesystemInputs}

PayloadOSTreeInputs ==
    {Nil} \cup
    {Some([OSTreeImageOptions(url, imageRef, "", rhsm) EXCEPT !.ContentURL = contentURL]) :
        url \in {"", "https://ostree.example.org/repo"},
        imageRef \in {"", "test/9/x86_64/edge"},
        contentURL \in {"", "mirrorlist=https://ostree.example.org/mirrorlist"},
        rhsm \in BOOLEAN}

PayloadOptions == {ImageOptions(o) : o \in PayloadOSTreeInputs}

PayloadImageTypes == FedoraImageTypes("39") \cup RHEL9ImageTypes("9.2")

PayloadNext ==
    \/ FedoraIotRawImage(PayloadImageTypes, PayloadCustomizationInputs, PayloadOptions)
    \/ FedoraIotInstallerImage(PayloadImageTypes, PayloadCustomizationInputs, PayloadOptions)
    \/ RHEL9EdgeRawImage(PayloadImageTypes, PayloadCustomizationInputs, PayloadOptions)
    \/ RHEL9EdgeInstallerImage(PayloadImageTypes, PayloadCustomizationInputs, PayloadOptions)
    \/ RHEL9EdgeSimplifiedInstallerImage(PayloadImageTypes, PayloadCustomizationInputs,
                                         PayloadOptions)

\* Builds of the five image types that need a payload commit, with and
\* without OSTree options and URL, over valid and invalid filesystems.
SpecPayload == Init /\ [][PayloadNext]_vars

----------------------------------------------------------------------------
(* The generator of the build pipelines (test/cases/generate-build-config) *)

\* skip image types that we can't test right now
SKIPS ==
    {"edge-ami", "edge-vsphere", "edge-installer", "edge-raw-image",
     "edge-simplified-installer", "iot-installer", "iot-raw-image",
     "iot-simplified-installer"}

BASE_CONFIG ==
    "\n"
    \o ".base:\n"
    \o "  before_script:\n"
    \o "    - mkdir -p /tmp/artifacts\n"
    \o "    - schutzbot/ci_details.sh > /tmp/artifacts/ci-details-before-run.txt\n"
    \o "    - cat schutzbot/team_ssh_keys.txt | tee -a ~/.ssh/authorized_keys > /dev/null\n"
    \o "  after_script:\n"
    \o "    - schutzbot/ci_details.sh > /tmp/artifacts/ci-details-after-run.txt || true\n"
    \o "    - schutzbot/update_github_status.sh update || true\n"
    \o "    - schutzbot/save_journal.sh || true\n"
    \o "    - schutzbot/upload_artifacts.sh\n"
    \o "  interruptible: true\n"
    \o "  retry: 1\n"
    \o "  tags:\n"
    \o "    - terraform\n"
    \o "\n"
    \o ".terraform:\n"
    \o "  extends: .base\n"
    \o "  tags:\n"
    \o "    - terraform\n"

NULL_CONFIG ==
    "\n"
    \o "NullBuild:\n"
    \o "  stage: test\n"
    \o "  script: \"true\"\n"

\* "rhel" in distro
Contains(s, sub) ==
    \E i \in 1..(Len(s) - Len(sub) + 1) : SubSeq(s, i, i + Len(sub) - 1) = sub

\* A job that is on the internal network whatever the distro
JobConfig_internalAlways(build) ==
    "\nbuild/" \o build.distro \o "/" \o build.arch \o "/" \o build.imageType
        \o "/" \o build.config.name \o ":\n"
    \o "  stage: test\n"
    \o "  script: ./test/cases/build-image.sh \"" \o build.distro \o "\" \""
        \o build.imageType \o "\" \"./test/configs/" \o build.config.name \o ".json\"\n"
    \o "  extends: .terraform\n"
    \o "  variables:\n"
    \o "    RUNNER: aws/fedora-38-" \o build.arch \o "\n"
    \o "    INTERNAL_NETWORK: \"true\"\n"

\* JOB_TEMPLATE.format(...) for one build request
JobConfig(build) ==
    "\nbuild/" \o build.distro \o "/" \o build.arch \o "/" \o build.imageType
        \o "/" \o build.config.name \o ":\n"
    \o "  stage: test\n"
    \o "  script: ./test/cases/build-image.sh \"" \o build.distro \o "\" \""
        \o build.imageType \o "\" \"./test/configs/" \o build.config.name \o ".json\"\n"
    \o "  extends: .terraform\n"
    \o "  variables:\n"
    \o "    RUNNER: aws/fedora-38-" \o build.arch \o "\n"
    \o "    INTERNAL_NETWORK: \""
        \o (IF Contains(build.distro, "rhel") THEN "true" ELSE "false") \o "\"\n"

\* check_config_names: the exit status, 0 when the function returns
check_config_names(configs) ==
    LET bad_configs == SelectSeq(configs, LAMBDA file : file.stem # file.name)
    IN  IF Len(bad_configs) > 0 THEN 1 ELSE 0

\* The path of the result of a manifest below the download directory
DlConfigPath(data) ==
    "builds/" \o data.request.distro \o "/" \o data.request.arch \o "/"
    \o Sum256Hex(serialise(data.manifest)) \o ".json"

RECURSIVE filterFrom(_, _, _, _, _)
filterFrom(manifests, dir, i, build_requests, errors) ==
    IF i > Len(manifests) THEN [build_requests |-> build_requests, errors |-> errors]
    ELSE LET data == manifests[i]
             dl_config_path == DlConfigPath(data)
         IN  IF data.request.imageType \in SKIPS
             THEN filterFrom(manifests, dir, i + 1, build_requests, errors)
             ELSE IF dl_config_path \in DOMAIN dir /\ dir[dl_config_path] = "result"
             THEN filterFrom(manifests, dir, i + 1, build_requests, errors)
             ELSE filterFrom(manifests, dir, i + 1, Append(build_requests, data.request),
                             IF dl_config_path \in DOMAIN dir
                             THEN Append(errors, "failed to parse " \o dl_config_path)
                             ELSE errors)

\* filter_builds that takes every result file for a successful build
filter_builds_trustsCorrupt(manifests, ok, dir) ==
    filterFrom(manifests, [p \in DOMAIN dir |-> "result"], 1, <<>>, <<>>)

\* filter_builds(manifest_dir): manifests is the directory in the order of
\* os.listdir, ok what dl_s3_configs returned (not looked at), dir the
\* download directory after the sync.
filter_builds(manifests, ok, dir) ==
    filterFrom(manifests, dir, 1, <<>>, <<>>)

\* generate_configs: the writes to the pipeline file, one per build
generate_configs(build_requests) ==
    [i \in DOMAIN build_requests |-> JobConfig(build_requests[i])]

\* At most MaxManifests manifests are generated.
MaxManifests == 3

BuildRequest(distro, arch, imageType, name) ==
    [distro |-> distro, arch |-> arch, imageType |-> imageType, config |-> [name |-> name]]

ManifestPool ==
    {[manifest |-> JString(<<"a">>),
      request |-> BuildRequest("fedora-39", "x86_64", "qcow2", "empty")],
     [manifest |-> JString(<<"b">>),
      request |-> BuildRequest("rhel-9.2", "aarch64", "edge-commit", "users")],
     [manifest |-> JString(<<"c">>),
      request |-> BuildRequest("fedora-39", "x86_64", "iot-raw-image", "empty")],
     [manifest |-> JString(<<"a", "<", "b">>),
      request |-> BuildRequest("centos-9", "x86_64", "qcow2", "empty")]}

ManifestDirs ==
    UNION {Orders(S) : S \in {T \in SUBSET ManifestPool : Cardinality(T) <= MaxManifests}}

DownloadDirs == MapsOver({DlConfigPath(data) : data \in ManifestPool}, {"result", "corrupt"})

ConfigFiles ==
    {<<>>,
     <<[stem |-> "empty", name |-> "empty"]>>,
     <<[stem |-> "empty", name |-> "empty"], [stem |-> "users", name |-> "users"]>>,
     <<[stem |-> "empty", name |-> "empty"], [stem |-> "users", name |-> "user"]>>,
     <<[stem |-> "users", name |-> "Users"]>>}

\* main: check_config_names, then the output file is opened for writing.
MainCheckConfigNames ==
    /\ pc = "idle"
    /\ \E configs \in ConfigFiles :
         LET status == check_config_names(configs)
         IN  /\ call' = [fn |-> "main", configs |-> configs, manifests |-> <<>>,
                         generated |-> FALSE, ok |-> FALSE, dir |-> EmptyMap,
                         build_requests |-> <<>>, errors |-> <<>>,
                         writes |-> IF status = 0 THEN Some(<<>>) ELSE Nil,
                         exit |-> status]
             /\ pc' = IF status = 0 THEN "namesChecked" ELSE "exited"
    /\ UNCHANGED <<run, inp, img, commits, mf, first>>

\* main: generate_manifests; runcmd exits with the status of a failed command.
MainGenerateManifests ==
    /\ pc = "namesChecked"
    /\ \E returncode \in {0, 1}, manifests \in ManifestDirs :
         IF returncode > 0
         THEN /\ call' = [call EXCEPT !.exit = returncode]
              /\ pc' = "exited"
         ELSE /\ call' = [call EXCEPT !.manifests = manifests, !.generated = TRUE]
              /\ pc' = "manifestsGenerated"
    /\ UNCHANGED <<run, inp, img, commits, mf, first>>

\* main: filter_builds; the sync succeeds or fails and leaves the download
\* directory with the files it fetched.
MainFilterBuilds ==
    /\ pc = "manifestsGenerated"
    /\ \E ok \in BOOLEAN, dir \in DownloadDirs :
         LET r == filter_builds(call.manifests, ok, dir)
         IN  call' = [call EXCEPT !.ok = ok, !.dir = dir,
                                  !.build_requests = r.build_requests,
                                  !.errors = r.errors]
    /\ pc' = "filtered"
    /\ UNCHANGED <<run, inp, img, commits, mf, first>>

\* main: the null configuration, or the base configuration and the jobs.
MainWriteConfig ==
    /\ pc = "filtered"
    /\ call' = [call EXCEPT
                   !.writes = IF Len(call.build_requests) = 0 THEN Some(<<NULL_CONFIG>>)
                              ELSE Some(<<BASE_CONFIG>> \o generate_configs(call.build_requests)),
                   !.exit = 0]
    /\ pc' = "exited"
    /\ UNCHANGED <<run, inp, img, commits, mf, first>>

ConfigNext ==
    \/ MainCheckConfigNames
    \/ MainGenerateManifests
    \/ MainFilterBuilds
    \/ MainWriteConfig

\* One run of generate-build-config over the test configs, the generated
\* manifests and the download directory.
SpecConfig == Init /\ [][ConfigNext]_vars

----------------------------------------------------------------------------
(* Properties *)

\* The build has produced an image.
HasImage == pc \in {"constructed", "resolved", "serialized"}

Image == Deref(img.img)

\* The OS customizations of the payload of the built image.
PayloadCustomizations ==
    IF IsNil(Image.RawImage) THEN Image.OSCustomizations
    ELSE Deref(Image.RawImage).OSCustomizations

\* The construction functions that call osCustomizations.
CallsOSCustomizations ==
    inp.t.image \in {"liveImage", "containerImage", "imageInstallerImage", "iotCommitImage",
                     "iotContainerImage", "tarImage", "edgeCommitImage",
                     "edgeContainerImage"}

\* C1: the second of two builds with identical inputs (image type,
\* blueprint, options, package sets, containers, seed, resolver) serializes
\* to the same manifest as the first, the order of YUMRepos included.
C1_SameManifestTwice == (run = 2 /\ pc = "serialized") => mf = first

InstallerFunctions ==
    {"imageInstallerImage", "liveInstallerImage", "iotInstallerImage",
     "edgeInstallerImage", "edgeSimplifiedInstallerImage"}

NamesOf(records) == {records[i].Name : i \in DOMAIN records}

\* The users and groups the built image carries in its own fields: those
\* of the raw image for the simplified installer.
SideChannel ==
    IF IsNil(Image.RawImage) THEN Image ELSE Deref(Image.RawImage)

\* C2: an image built by an installer function has no users and no groups
\* in its OS customizations; the users and groups of the blueprint are in
\* the image's own Users and Groups fields, one entry each and in order
\* (the live installer stages none).
C2_InstallerPayloadHasNoUsers ==
    (HasImage /\ inp.t.image \in InstallerFunctions) =>
        /\ PayloadCustomizations.Users = <<>>
        /\ PayloadCustomizations.Groups = <<>>
        /\ Image.OSCustomizations.Users = <<>>
        /\ Image.OSCustomizations.Groups = <<>>
        /\ inp.t.image # "liveInstallerImage" =>
            /\ SideChannel.Users =
                 [i \in DOMAIN inp.c.User |->
                    [Name |-> inp.c.User[i].name, Key |-> inp.c.User[i].key]]
            /\ SideChannel.Groups =
                 [i \in DOMAIN inp.c.Group |->
                    [Name |-> inp.c.Group[i].name, GID |-> inp.c.Group[i].gid]]
        /\ inp.t.image = "liveInstallerImage" =>
            SideChannel.Users = <<>> /\ SideChannel.Groups = <<>>

C2_Witness ==
    /\ pc = "serialized"
    /\ inp.t.family = "rhel9"
    /\ inp.t.image = "imageInstallerImage"
    /\ Len(inp.c.User) > 0
    /\ Len(inp.c.Group) > 0
    /\ Image.OSCustomizations.Users = <<>>
    /\ NamesOf(Image.Users) = {"alice"}

\* The image type's default kernel append string, and the blueprint's.
DefaultAppend == inp.t.kernelOptions

UserAppend == IF IsNil(inp.c.Kernel) THEN "" ELSE Deref(inp.c.Kernel).Append

NonEmpty(strs) == SelectSeq(strs, LAMBDA x : x # "")

\* C3 as stated: for every image type whose function calls
\* osCustomizations, the kernel options are the default append string
\* followed by the user's, an empty one contributing nothing.
C3_MergedForEveryImageType ==
    (HasImage /\ CallsOSCustomizations) =>
        PayloadCustomizations.KernelOptionsAppend = NonEmpty(<<DefaultAppend, UserAppend>>)

\* C3: for every image type that is bootable or rpmOstree, the kernel
\* options are the default append string followed by the user's, an empty
\* one contributing nothing ("quiet" and "debug" join to "quiet debug");
\* for every other image type the kernel options are empty.
C3_MergedWhenBootableOrOSTree ==
    (HasImage /\ CallsOSCustomizations) =>
        /\ (inp.t.bootable \/ inp.t.rpmOstree) =>
            /\ PayloadCustomizations.KernelOptionsAppend
                 = NonEmpty(<<DefaultAppend, UserAppend>>)
            /\ (DefaultAppend = "quiet" /\ UserAppend = "debug") =>
                 JoinSpace(PayloadCustomizations.KernelOptionsAppend) = "quiet debug"
        /\ ~(inp.t.bootable \/ inp.t.rpmOstree) =>
            PayloadCustomizations.KernelOptionsAppend = <<>>

C3_Witness ==
    /\ HasImage
    /\ inp.t.family = "fedora"
    /\ inp.t.image = "liveImage"
    /\ DefaultAppend = "quiet"
    /\ UserAppend = "debug"
    /\ Image.OSCustomizations.KernelOptionsAppend = <<"quiet", "debug">>

\* The firewall stage options that hold exactly the user's firewall
\* customization.
UserFirewall ==
    LET fw == Deref(inp.c.Firewall)
    IN  [Ports |-> fw.Ports,
         EnabledServices |-> IF IsNil(fw.Services) THEN <<>> ELSE Deref(fw.Services).Enabled,
         DisabledServices |-> IF IsNil(fw.Services) THEN <<>> ELSE Deref(fw.Services).Disabled,
         Zones |-> [i \in DOMAIN fw.Zones |->
                      [Name |-> Deref(fw.Zones[i].Name), Sources |-> fw.Zones[i].Sources]]]

\* C4: when the blueprint has a firewall customization, the firewall of
\* the OS customizations holds the user's ports, enabled and disabled
\* services and zones, and nothing of the default configuration.
C4_FirewallFullReplace ==
    (HasImage /\ CallsOSCustomizations /\ ~IsNil(inp.c.Firewall)) =>
        PayloadCustomizations.Firewall = Some(UserFirewall)

\* C5: when the blueprint has no firewall customization, the firewall of
\* the OS customizations is that of the image type's default configuration,
\* in both families.
C5_FirewallFallback ==
    (HasImage /\ CallsOSCustomizations /\ IsNil(inp.c.Firewall)) =>
        PayloadCustomizations.Firewall = inp.t.defaultImageConfig.Firewall

\* The options of the recorded call are nil or have no URL.
NoURL == IsNil(call.options) \/ Deref(call.options).URL = ""

\* The commit ref the options and the default ref of the recorded call
\* select: the image ref when the options have one, else the default ref.
EffectiveRef ==
    IF ~IsNil(call.options) /\ Deref(call.options).ImageRef # ""
    THEN Deref(call.options).ImageRef
    ELSE call.defaultRef

\* C6: makeOSTreePayloadCommit fails with "ostree commit URL required" and
\* an empty source spec when the options are nil or have no URL, whatever
\* the refs; otherwise it succeeds with the options' URL, the image ref (or
\* the default ref when that is empty) and the options' RHSM flag.
C6_PayloadCommitRequiresURL ==
    call.fn = "makeOSTreePayloadCommit" =>
        IF NoURL
        THEN /\ call.err = "ostree commit URL required"
             /\ call.spec = [URL |-> "", Ref |-> "", RHSM |-> FALSE]
        ELSE /\ call.err = ""
             /\ call.spec = [URL |-> Deref(call.options).URL, Ref |-> EffectiveRef,
                             RHSM |-> Deref(call.options).RHSM]

C6_Witness ==
    /\ call.fn = "makeOSTreePayloadCommit"
    /\ ~IsNil(call.options)
    /\ Deref(call.options).URL = ""
    /\ Deref(call.options).ImageRef # ""
    /\ call.defaultRef # ""
    /\ call.err = "ostree commit URL required"

\* C7: with options that have a URL, makeOSTreeParentCommit returns a
\* parent spec; its ref is the returned commit ref when the options have no
\* parent ref and the parent ref otherwise, and the returned commit ref is
\* the image ref or the default ref either way.
C7_ParentRefFallsBackToCommitRef ==
    (call.fn = "makeOSTreeParentCommit" /\ ~NoURL) =>
        /\ ~IsNil(call.parent)
        /\ call.ref = EffectiveRef
        /\ Deref(call.parent).Ref =
             IF Deref(call.options).ParentRef = "" THEN call.ref
             ELSE Deref(call.options).ParentRef

C7_Witness ==
    /\ call.fn = "makeOSTreeParentCommit"
    /\ ~NoURL
    /\ Deref(call.options).ParentRef = ""
    /\ Deref(call.options).ImageRef # ""
    /\ call.defaultRef # ""
    /\ Deref(call.parent).Ref = Deref(call.options).ImageRef

\* C8: makeOSTreeParentCommit returns no parent spec exactly when the
\* options are nil or have no URL; with nil options the returned ref is the
\* default ref, and with options the image ref, when not empty, is the
\* returned ref also without a URL. (The function has no error result.)
C8_NoParentWithoutURL ==
    call.fn = "makeOSTreeParentCommit" =>
        /\ IsNil(call.parent) <=> NoURL
        /\ IsNil(call.options) => call.ref = call.defaultRef
        /\ (~IsNil(call.options) /\ Deref(call.options).ImageRef # "") =>
             call.ref = Deref(call.options).ImageRef
        /\ (~IsNil(call.options) /\ Deref(call.options).ImageRef = "") =>
             call.ref = call.defaultRef

C8_Witness ==
    /\ call.fn = "makeOSTreeParentCommit"
    /\ ~IsNil(call.options)
    /\ Deref(call.options).URL = ""
    /\ Deref(call.options).ParentRef # ""
    /\ Deref(call.options).ImageRef # ""
    /\ IsNil(call.parent)
    /\ call.ref = Deref(call.options).ImageRef

\* The release versions at or above "39", and at or above "9.2", among
\* those of the version runs; the rolling release is the newest.
AtOrAbove39 == {"39", "40", "9-stream"}

AtOrAbove92 == {"9.2", "9.3", "9.10", "9-stream"}

\* The version-gated features of the built image.
WebUI == "inst.webui" \in Range(Image.AdditionalKernelOpts)

FirstBootServices ==
    Range(IgnitionServices) \subseteq Range(Image.OSCustomizations.EnabledServices)

C10_ResolveCommitIsAFunction ==
    call.fn = "resolveCommit" =>
        \A i, j \in DOMAIN call.sources :
            LET a == call.sources[i]
                b == call.sources[j]
            IN  /\ call.specs[i].URL = a.URL
                /\ call.specs[i].Ref = a.Ref
                /\ call.specs[i].Secrets =
                     IF a.RHSM THEN "org.osbuild.rhsm.consumer" ELSE ""
                /\ (a.URL = b.URL /\ a.Ref = b.Ref) =>
                     call.specs[i].Checksum = call.specs[j].Checksum
                /\ (a.URL = b.URL /\ a.Ref # b.Ref) =>
                     call.specs[i].Checksum # call.specs[j].Checksum

C10_Witness ==
    /\ call.fn = "resolveCommit"
    /\ Len(call.sources) = 2
    /\ call.sources[1].URL = call.sources[2].URL
    /\ call.sources[1].Ref # call.sources[2].Ref
    /\ call.sources[1].RHSM
    /\ ~call.sources[2].RHSM
    /\ call.specs[1].Checksum # call.specs[2].Checksum
    /\ call.specs[1].Secrets = "org.osbuild.rhsm.consumer"

\* The number of places where sub occurs in str.
Occurrences(str, sub) ==
    Cardinality({i \in 1..(Len(str) - Len(sub) + 1) : SubSeq(str, i, i + Len(sub) - 1) = sub})

RECURSIVE SumSeq(_)
SumSeq(nums) == IF Len(nums) = 0 THEN 0 ELSE Head(nums) + SumSeq(Tail(nums))

\* The number of times the character ch occurs in the string values of a
\* document.
RECURSIVE CharCount(_, _)
CharCount(v, ch) ==
    CASE v.kind = "string" -> Cardinality({i \in DOMAIN v.chars : v.chars[i] = ch})
      [] v.kind = "array" -> SumSeq([i \in DOMAIN v.items |-> CharCount(v.items[i], ch)])
      [] v.kind = "object" ->
            SumSeq([i \in DOMAIN v.members |-> CharCount(v.members[i].value, ch)])

\* The lines of a text in which every line ends with a newline.
RECURSIVE LinesFrom(_, _)
LinesFrom(str, i) ==
    IF i > Len(str) THEN <<>>
    ELSE LET j == CHOOSE k \in i..Len(str) :
                      /\ SubSeq(str, k, k) = "\n"
                      /\ \A m \in i..(k - 1) : SubSeq(str, m, m) # "\n"
         IN  <<SubSeq(str, i, j - 1)>> \o LinesFrom(str, j + 1)

LeadingSpaces(line) ==
    CHOOSE n \in 0..Len(line) :
        /\ \A i \in 1..n : SubSeq(line, i, i) = " "
        /\ n < Len(line) => SubSeq(line, n + 1, n + 1) # " "

\* The line opens an array or object that goes on in the next lines, or
\* closes one.
Opens(line) == Len(line) > 0 /\ SubSeq(line, Len(line), Len(line)) \in {"{", "["}

Closes(line) ==
    LeadingSpaces(line) < Len(line)
    /\ SubSeq(line, LeadingSpaces(line) + 1, LeadingSpaces(line) + 1) \in {"}", "]"}

\* The nesting depth of line k of the lines.
DepthOf(lines, k) ==
    Cardinality({i \in 1..(k - 1) : Opens(lines[i])})
    - Cardinality({i \in 1..k : Closes(lines[i])})

\* C11: the saved bytes end with exactly one newline, every line is
\* indented by two spaces per nesting level, no '<' or '>' is left in the
\* bytes and each one of a string value is there as \u003c or \u003e (the
\* value "<script>" as "\u003cscript\u003e"); saving is a function of
\* the manifest.
C11_SavedFormat ==
    (call.fn \in {"save", "serialise"}) =>
        LET b == call.bytes
            lines == LinesFrom(b, 1)
        IN  /\ SubSeq(b, Len(b), Len(b)) = "\n"
            /\ SubSeq(b, Len(b) - 1, Len(b) - 1) # "\n"
            /\ \A k \in DOMAIN lines : LeadingSpaces(lines[k]) = 2 * DepthOf(lines, k)
            /\ Occurrences(b, "<") = 0
            /\ Occurrences(b, ">") = 0
            /\ Occurrences(b, "\\u003c") = CharCount(call.ms, "<")
            /\ Occurrences(b, "\\u003e") = CharCount(call.ms, ">")
            /\ b = save(call.ms)

C11_Witness ==
    /\ call.fn = "save"
    /\ CharCount(call.ms, "<") = 1
    /\ Occurrences(call.bytes, "\"\\u003cscript\\u003e\"") = 1
    /\ Len(LinesFrom(call.bytes, 1)) = 9

\* C18: the text the CI script serialises for a manifest is, byte for
\* byte, what the build saved for it.
C18_SerialiseEqualsSave ==
    call.fn = "serialise" => call.serialised = call.bytes

----------------------------------------------------------------------------
(* The build driver *)

\* The steps of a build, in the order of makeManifest and main.
BuildSteps ==
    <<"Manifest", "depsolve", "resolvePipelineContainers", "resolvePipelineCommits",
      "Serialize", "save", "RunOSBuild">>

\* The text makeManifest puts in front of the error of a step.
ErrorPrefix(step) ==
    CASE step = "Manifest" -> "[ERROR] manifest generation failed: "
      [] step = "depsolve" -> "[ERROR] depsolve failed: "
      [] step = "resolvePipelineContainers" -> "[ERROR] container resolution failed: "
      [] step = "Serialize" -> "[ERROR] manifest serialization failed: "
      [] OTHER -> ""

Ran(step) == \E i \in DOMAIN call.steps : call.steps[i] = step

\* C12: the steps of a build run in the order generation, depsolve,
\* container resolution, commit resolution, Serialize, save, build, none
\* left out; Serialize runs only when generation, depsolve and container
\* resolution have returned their results without an error; and once a
\* step of makeManifest has failed it is the last step that ran, the error
\* is that step's, makeManifest has returned (or the process has ended)
\* with no manifest, and nothing was saved or built.
C12_AllOrNothing ==
    call.fn = "makeManifest" =>
        /\ call.steps = SubSeq(BuildSteps, 1, Len(call.steps))
        /\ Ran("Serialize") =>
              /\ Succeeded(img)
              /\ ~IsNil(call.packageSpecs)
              /\ ~IsNil(call.containerSpecs)
              /\ commits = resolvePipelineCommits(GetOSTreeSourceSpecs(Deref(img.img)))
        /\ call.failed \in {"Manifest", "depsolve", "resolvePipelineContainers",
                            "Serialize"} =>
              /\ call.steps[Len(call.steps)] = call.failed
              /\ HasPrefix(call.err, ErrorPrefix(call.failed))
              /\ pc \in {"returned", "exited"}
              /\ mf = NoManifest
              /\ ~call.saved /\ ~call.started
              /\ call.failed # "Serialize" => ~Ran("Serialize")
        /\ (call.saved \/ call.started) => mf # NoManifest /\ Ran("Serialize")

\* A build whose packages were depsolved and whose container resolution
\* failed has ended.
C12_Witness ==
    /\ call.fn = "makeManifest"
    /\ pc = "exited"
    /\ call.failed = "resolvePipelineContainers"
    /\ ~IsNil(call.packageSpecs)
    /\ call.exit = 1

----------------------------------------------------------------------------
(* The container resolver protocol and the keying of the resolved specs *)

\* The calls made on one resolver instance, in the order they were made.
EventsOf(resolver) == SelectSeq(call.events, LAMBDA e : e.resolver = resolver)

Resolvers == {call.events[i].resolver : i \in DOMAIN call.events}

\* A resolver is created, takes Add calls only, and is finished once, last.
Protocol(resolver) ==
    LET es == EventsOf(resolver)
    IN  /\ Len(es) >= 2
        /\ es[1].op = "NewResolver"
        /\ es[Len(es)].op = "Finish"
        /\ \A i \in 2..(Len(es) - 1) : es[i].op = "Add"

\* The references added to a resolver, in the order they were added.
Added(resolver) ==
    LET adds == SelectSeq(EventsOf(resolver), LAMBDA e : e.op = "Add")
    IN  [i \in DOMAIN adds |-> adds[i].arg]

\* The number of pipelines resolvePipelineContainers got to.
Visited ==
    IF \E i \in DOMAIN call.order : call.order[i] \in call.failing
    THEN CHOOSE i \in DOMAIN call.order :
            /\ call.order[i] \in call.failing
            /\ \A j \in 1..(i - 1) : call.order[j] \notin call.failing
    ELSE Len(call.order)

C14_SameKeying ==
    (call.fn \in {"depsolve", "resolvePipelineContainers", "resolvePipelineCommits"}
     /\ call.err = "") =>
        /\ ~IsNil(call.result)
        /\ DOMAIN Deref(call.result) = DOMAIN call.request
        /\ call.fn = "resolvePipelineCommits" =>
              \A name \in DOMAIN call.request :
                 LET sources == call.request[name]
                     specs == Deref(call.result)[name]
                 IN  /\ Len(specs) = Len(sources)
                     /\ \A i \in DOMAIN sources :
                           /\ specs[i].URL = sources[i].URL
                           /\ specs[i].Ref = sources[i].Ref

\* Commits were resolved for two pipelines, one of them with two sources
\* that differ.
C14_Witness ==
    /\ call.fn = "resolvePipelineCommits"
    /\ DOMAIN call.request = {"os", "ostree-deployment"}
    /\ Len(call.request["os"]) = 2
    /\ call.request["os"][1] # call.request["os"][2]
    /\ Deref(call.result)["os"][2].Ref = "parent/ref"

----------------------------------------------------------------------------
(* The default configuration under construction *)

----------------------------------------------------------------------------
(* The merged OS facets: Anaconda modules, OpenSCAP, SELinux, NTP *)

\* C16: an installer image that stages users and groups (fedora
\* imageInstallerImage and iotInstallerImage, rhel9 imageInstallerImage and
\* edgeInstallerImage) lists the Anaconda users module exactly when it has
\* at least one user or group.
C16_UsersModuleIffUsersOrGroups ==
    (HasImage /\ inp.t.image \in {"imageInstallerImage", "iotInstallerImage",
                                   "edgeInstallerImage"}) =>
        (AnacondaUsersModule \in Range(Image.AdditionalAnacondaModules)
         <=> Len(Image.Users) + Len(Image.Groups) > 0)

\* An image was built, or the construction panicked, in a function that
\* calls osCustomizations.
Merged == HasImage /\ CallsOSCustomizations

OscapPanic == "unexpected oscap options for ostree image type"

\* The datastream of the distribution of the image type
DefaultDatastream ==
    IF inp.t.family = "fedora" THEN "/usr/share/xml/scap/ssg/content/ssg-fedora-ds.xml"
    ELSE IF inp.t.isRHEL THEN "/usr/share/xml/scap/ssg/content/ssg-rhel9-ds.xml"
    ELSE "/usr/share/xml/scap/ssg/content/ssg-cs9-ds.xml"

\* C17: with an OpenSCAP customization an rpmOstree image type panics and
\* yields no image; no image of an rpmOstree type carries an OpenSCAP
\* configuration; and for the other types the configuration is there with
\* the user's datastream, or the distribution's when the user's is empty.
C17_OpenSCAP ==
    /\ (pc \in {"constructed", "failed"} /\ CallsOSCustomizations
        /\ ~IsNil(inp.c.OpenSCAP) /\ inp.t.rpmOstree) =>
          (pc = "failed" /\ img.panic = OscapPanic /\ IsNil(img.img))
    /\ (Merged /\ inp.t.rpmOstree) => IsNil(Image.OSCustomizations.OpenSCAPConfig)
    /\ (pc \in {"constructed", "failed"} /\ CallsOSCustomizations
        /\ ~IsNil(inp.c.OpenSCAP) /\ ~inp.t.rpmOstree) =>
          /\ pc = "constructed"
          /\ ~IsNil(Image.OSCustomizations.OpenSCAPConfig)
          /\ Deref(Image.OSCustomizations.OpenSCAPConfig).Datastream =
                (IF Deref(inp.c.OpenSCAP).DataStream # ""
                 THEN Deref(inp.c.OpenSCAP).DataStream ELSE DefaultDatastream)
          /\ Deref(Image.OSCustomizations.OpenSCAPConfig).ProfileID =
                Deref(inp.c.OpenSCAP).ProfileID
    /\ (Merged /\ IsNil(inp.c.OpenSCAP)) => IsNil(Image.OSCustomizations.OpenSCAPConfig)

\* A CentOS Stream image was built with an OpenSCAP customization that
\* names no datastream.
C17_Witness ==
    /\ Merged
    /\ inp.t.family = "rhel9" /\ ~inp.t.isRHEL /\ ~inp.t.rpmOstree
    /\ ~IsNil(inp.c.OpenSCAP) /\ Deref(inp.c.OpenSCAP).DataStream = ""
    /\ Deref(Image.OSCustomizations.OpenSCAPConfig).Datastream
         = "/usr/share/xml/scap/ssg/content/ssg-cs9-ds.xml"

\* C19: the SELinux policy of a built image is "targeted" when NoSElinux
\* of the default configuration is unset or false and empty exactly when
\* it is true, whatever the blueprint holds.
C19_SElinuxPolicy ==
    Merged =>
        LET noSElinux == inp.t.defaultImageConfig.NoSElinux
            off == ~IsNil(noSElinux) /\ Deref(noSElinux)
        IN  /\ ~off => Image.OSCustomizations.SElinux = "targeted"
            /\ off <=> Image.OSCustomizations.SElinux = ""

\* An image was built from a blueprint with a user, a timezone with NTP
\* servers and an OpenSCAP customization, NoSElinux being set to false.
C19_Witness ==
    /\ Merged
    /\ inp.t.defaultImageConfig.NoSElinux = Some(FALSE)
    /\ Len(inp.c.User) > 0 /\ ~IsNil(inp.c.Timezone) /\ ~IsNil(inp.c.OpenSCAP)
    /\ Image.OSCustomizations.SElinux = "targeted"

\* The NTP servers the blueprint names
UserNTPServers == IF IsNil(inp.c.Timezone) THEN <<>> ELSE Deref(inp.c.Timezone).NTPServers

\* C20: with NTP servers in the blueprint the image has one record per
\* server, in order, the hostname being the server, and nothing of the
\* default time synchronization (none of its servers, no leap second
\* timezone); without them it has the servers of the default time
\* synchronization, and in rhel9 its leap second timezone, or neither when
\* the default configuration has no time synchronization.
C20_NTPMerge ==
    Merged =>
        LET osc == Image.OSCustomizations
            ts == inp.t.defaultImageConfig.TimeSynchronization
        IN  /\ Len(UserNTPServers) > 0 =>
                  /\ Len(osc.NTPServers) = Len(UserNTPServers)
                  /\ \A i \in DOMAIN UserNTPServers :
                        osc.NTPServers[i].Hostname = UserNTPServers[i]
                  /\ IsNil(osc.LeapSecTZ)
            /\ (Len(UserNTPServers) = 0 /\ ~IsNil(ts)) =>
                  /\ osc.NTPServers = Deref(ts).Servers
                  /\ inp.t.family = "rhel9" => osc.LeapSecTZ = Deref(ts).LeapsecTz
                  /\ inp.t.family = "fedora" => IsNil(osc.LeapSecTZ)
            /\ (Len(UserNTPServers) = 0 /\ IsNil(ts)) =>
                  (osc.NTPServers = <<>> /\ IsNil(osc.LeapSecTZ))

\* An rhel9 image was built from a blueprint with two NTP servers on a
\* default configuration that has a server and a leap second timezone.
C20_Witness ==
    /\ Merged
    /\ inp.t.family = "rhel9"
    /\ Len(UserNTPServers) = 2
    /\ ~IsNil(inp.t.defaultImageConfig.TimeSynchronization)
    /\ ~IsNil(Deref(inp.t.defaultImageConfig.TimeSynchronization).LeapsecTz)
    /\ Image.OSCustomizations.NTPServers
         = <<[Hostname |-> "0.pool.example.org"], [Hostname |-> "1.pool.example.org"]>>
    /\ IsNil(Image.OSCustomizations.LeapSecTZ)

----------------------------------------------------------------------------
(* Hostname, locale, keyboard and timezone *)

\* C21: in the fedora family the hostname of a built image is the user's
\* when one is supplied and "localhost.localdomain" otherwise, and it is
\* never empty; in the rhel9 family it is the user's or empty.
C21_HostnameFallback ==
    Merged =>
        LET hostname == Image.OSCustomizations.Hostname
        IN  /\ ~IsNil(inp.c.Hostname) => hostname = Deref(inp.c.Hostname)
            /\ (IsNil(inp.c.Hostname) /\ inp.t.family = "fedora") =>
                  hostname = "localhost.localdomain"
            /\ (IsNil(inp.c.Hostname) /\ inp.t.family = "rhel9") => hostname = ""
            /\ inp.t.family = "fedora" => hostname # ""

\* The user's language, keyboard and timezone of the build
UserLocale == GetPrimaryLocale(inp.c)

UserTimezone == GetTimezoneSettings(inp.c).timezone

\* C23: language, keyboard and timezone of a built image are each the
\* user's value when supplied, else the value of the default
\* configuration when present, else unset, whatever was supplied for the
\* other two.
C23_IndependentFallThrough ==
    Merged =>
        LET osc == Image.OSCustomizations
            cfg == inp.t.defaultImageConfig
        IN  /\ osc.Language =
                  (IF ~IsNil(UserLocale.language) THEN Deref(UserLocale.language)
                   ELSE IF ~IsNil(cfg.Locale) THEN Deref(cfg.Locale) ELSE "")
            /\ osc.Keyboard =
                  (IF ~IsNil(UserLocale.keyboard) THEN UserLocale.keyboard
                   ELSE IF ~IsNil(cfg.Keyboard) THEN Some(Deref(cfg.Keyboard).Keymap)
                   ELSE Nil)
            /\ osc.Timezone =
                  (IF ~IsNil(UserTimezone) THEN Deref(UserTimezone)
                   ELSE IF ~IsNil(cfg.Timezone) THEN Deref(cfg.Timezone) ELSE "")

\* An image was built from a blueprint with a language and no keyboard or
\* timezone on a default configuration that has all three: the language is
\* the user's, keyboard and timezone are the defaults.
C23_Witness ==
    /\ Merged
    /\ ~IsNil(UserLocale.language) /\ IsNil(UserLocale.keyboard) /\ IsNil(UserTimezone)
    /\ ~IsNil(inp.t.defaultImageConfig.Locale)
    /\ Image.OSCustomizations.Language = "de_DE.UTF-8"
    /\ Image.OSCustomizations.Keyboard = Some("us")
    /\ Image.OSCustomizations.Timezone = "America/New_York"

----------------------------------------------------------------------------
(* Files and inline GPG keys *)

\* The inline keys of the custom repositories, as <<repository, key>>
InlineKeys ==
    {rk \in UNION {{<<i, k>> : k \in DOMAIN inp.c.Repositories[i].GPGKeys} :
                     i \in DOMAIN inp.c.Repositories} :
        inp.c.Repositories[rk[1]].GPGKeys[rk[2]].Inline}

\* The blueprint has a directory or file outside the tree, or a repository
\* without an id.
InvalidCustomizations ==
    \/ \E i \in DOMAIN inp.c.Directories : ~HasPrefix(inp.c.Directories[i].Path, "/")
    \/ \E i \in DOMAIN inp.c.Files : ~HasPrefix(inp.c.Files[i].Path, "/")
    \/ \E i \in DOMAIN inp.c.Repositories : inp.c.Repositories[i].Id = ""

\* C22: the files of a built image are the user's files, each with its
\* path and data and in the user's order, followed by one file for every
\* inline key of the custom repositories, holding that key; and a blueprint
\* with an invalid directory, file or repository ends the construction
\* with a panic and no image.
C22_KeyFilesAppended ==
    /\ Merged =>
          LET files == Image.OSCustomizations.Files
              n == Len(inp.c.Files)
          IN  /\ Len(files) = n + Cardinality(InlineKeys)
              /\ \A i \in 1..n :
                    /\ files[i].path = inp.c.Files[i].Path
                    /\ files[i].data = inp.c.Files[i].Data
              /\ \A rk \in InlineKeys :
                    \E j \in (n + 1)..Len(files) :
                       files[j].data = inp.c.Repositories[rk[1]].GPGKeys[rk[2]].Data
              /\ ~InvalidCustomizations
    /\ (pc \in {"constructed", "failed"} /\ CallsOSCustomizations
        /\ InvalidCustomizations) =>
          (pc = "failed" /\ img.panic # "" /\ IsNil(img.img))

\* An image was built from a blueprint with two files and a repository
\* with an inline key: three files, the key file last.
C22_Witness ==
    /\ Merged
    /\ Len(inp.c.Files) = 2
    /\ Cardinality(InlineKeys) = 1
    /\ Len(Image.OSCustomizations.Files) = 3
    /\ Image.OSCustomizations.Files[1].path = "/etc/motd"
    /\ Image.OSCustomizations.Files[3].data = "-----BEGIN PGP PUBLIC KEY BLOCK-----"

----------------------------------------------------------------------------
(* Read-only sysroot and the "rw" kernel option *)

\* The construction built an OSTree raw image (the simplified installer
\* carries it inside).
RawImageBuilt ==
    /\ HasImage
    /\ \/ inp.t.family = "fedora" /\ inp.t.image = "iotRawImage"
       \/ inp.t.family = "rhel9"
            /\ inp.t.image \in {"edgeRawImage", "edgeSimplifiedInstallerImage"}

\* The releases at or above the family's threshold for the read-only
\* sysroot, among those of the version runs.
AtOrAbove37 == {"37", "38", "39", "40", "9-stream"}

AtOrAboveThreshold ==
    IF inp.t.family = "fedora" THEN inp.t.releasever \in AtOrAbove37
    ELSE inp.t.osVersion \in AtOrAbove92

\* C24: in every OSTree raw image the sysroot is read-only if and only if
\* "rw" is among the kernel options, both only from the family's threshold
\* release on, and "modprobe.blacklist=vc4" is the first kernel option.
C24_ReadOnlyIffRW ==
    RawImageBuilt =>
        /\ SideChannel.SysrootReadOnly <=> "rw" \in Range(SideChannel.KernelOptionsAppend)
        /\ SideChannel.SysrootReadOnly => AtOrAboveThreshold
        /\ SideChannel.KernelOptionsAppend[1] = "modprobe.blacklist=vc4"

\* C24, as the code has it: the sysroot is read-only exactly from the
\* family's threshold release on, a read-only sysroot always comes with
\* "rw" as the second kernel option behind "modprobe.blacklist=vc4"; the
\* rhel9 functions set "rw" only then, iotRawImage sets it on every release.
C24_ReadOnlyImpliesRW ==
    RawImageBuilt =>
        LET kopts == SideChannel.KernelOptionsAppend
            rw == Len(kopts) >= 2 /\ kopts[2] = "rw"
        IN  /\ SideChannel.SysrootReadOnly <=> AtOrAboveThreshold
            /\ SideChannel.SysrootReadOnly => rw
            /\ kopts[1] = "modprobe.blacklist=vc4"
            /\ inp.t.family = "rhel9" => (rw <=> SideChannel.SysrootReadOnly)
            /\ inp.t.family = "fedora" => rw

\* An IoT raw image of fedora 36: "rw" without a read-only sysroot.
C24_Witness ==
    /\ RawImageBuilt
    /\ inp.t.family = "fedora"
    /\ inp.t.releasever = "36"
    /\ ~SideChannel.SysrootReadOnly
    /\ SideChannel.KernelOptionsAppend = <<"modprobe.blacklist=vc4", "rw">>

----------------------------------------------------------------------------
(* The calls of depsolve *)

\* The package sets handed to solver.Depsolve, in the order of the calls
DepsolveCalls == [i \in DOMAIN call.events |-> call.events[i].arg]

\* C25: depsolve hands every package set to the solver at most once; when
\* no call fails every set is solved exactly once and the result is keyed
\* by the sets; when a call fails it is the last call, the sets behind it
\* are never solved, and the error comes back with a nil map, the sets
\* already solved being dropped.
C25_OnceAndStopAtFailure ==
    call.fn = "depsolve" =>
        /\ \A i, j \in DOMAIN DepsolveCalls :
              DepsolveCalls[i] = DepsolveCalls[j] => i = j
        /\ Range(DepsolveCalls) \subseteq DOMAIN call.request
        /\ \A i \in DOMAIN DepsolveCalls :
              DepsolveCalls[i] \in call.failing => i = Len(DepsolveCalls)
        /\ call.err = "" <=> Range(DepsolveCalls) \cap call.failing = {}
        /\ call.err = "" =>
              /\ Range(DepsolveCalls) = DOMAIN call.request
              /\ ~IsNil(call.result)
              /\ DOMAIN Deref(call.result) = DOMAIN call.request
        /\ call.err # "" =>
              /\ IsNil(call.result)
              /\ call.err = "depsolve " \o DepsolveCalls[Len(DepsolveCalls)]

\* The second of three package sets failed: one set was solved and
\* dropped, the third never reached the solver.
C25_Witness ==
    /\ call.fn = "depsolve"
    /\ Cardinality(DOMAIN call.request) = 3
    /\ Len(DepsolveCalls) = 2
    /\ DepsolveCalls[1] \notin call.failing
    /\ call.err # ""
    /\ IsNil(call.result)

\* C30: makeManifest never returns "depsolve did not return any packages":
\* when depsolve returns no error its map is not nil, and a manifest
\* without package sets goes on with an empty map of package specs.
C30_NilMapUnreachable ==
    call.fn = "makeManifest.depsolve" =>
        /\ call.err # "[ERROR] depsolve did not return any packages"
        /\ call.err = "" <=> ~IsNil(call.result)
        /\ (call.request = EmptyMap /\ call.err = "") => Deref(call.result) = EmptyMap
        /\ call.request = EmptyMap => call.err = ""

\* The depsolve step of a manifest without package sets succeeded with
\* an empty map and no call of the solver.
C30_Witness ==
    /\ call.fn = "makeManifest.depsolve"
    /\ call.request = EmptyMap
    /\ call.err = ""
    /\ ~IsNil(call.result)
    /\ Deref(call.result) = EmptyMap
    /\ call.events = <<>>

----------------------------------------------------------------------------
(* The web UI of the image installer *)

WebUIModules ==
    <<"org.fedoraproject.Anaconda.Modules.Security",
      "org.fedoraproject.Anaconda.Modules.Timezone",
      "org.fedoraproject.Anaconda.Modules.Localization">>

\* C26: the fedora image installer has the kernel options "inst.webui"
\* and "inst.webui.remote" and the Security, Timezone and Localization
\* modules in front of the Users module exactly for a fedora release
\* greater than 38; for 38 and below it has the Users module alone and no
\* kernel option.
C26_WebUIAbove38 ==
    (HasImage /\ inp.t.family = "fedora" /\ inp.t.image = "imageInstallerImage") =>
        IF HasPrefix(inp.t.distroName, "fedora") /\ inp.t.releasever \in AtOrAbove39
        THEN /\ Image.AdditionalKernelOpts = <<"inst.webui", "inst.webui.remote">>
             /\ Image.AdditionalAnacondaModules = WebUIModules \o <<AnacondaUsersModule>>
        ELSE /\ Image.AdditionalKernelOpts = <<>>
             /\ Image.AdditionalAnacondaModules = <<AnacondaUsersModule>>

----------------------------------------------------------------------------
(* Construction without an OSTree URL *)

PayloadBuild ==
    /\ pc \in {"constructed", "failed"}
    /\ inp.t.image \in {"iotRawImage", "iotInstallerImage", "edgeRawImage",
                         "edgeInstallerImage", "edgeSimplifiedInstallerImage"}

NoPayloadURL == IsNil(inp.options.OSTree) \/ Deref(inp.options.OSTree).URL = ""

----------------------------------------------------------------------------
(* The filtered builds and the generated pipeline *)

Filtered == call.fn = "main" /\ (pc = "filtered" \/ (pc = "exited" /\ call.exit = 0 /\ call.generated))

Scheduled(data) == \E i \in DOMAIN call.build_requests : call.build_requests[i] = data.request

Skipped(data) == data.request.imageType \in SKIPS

\* The download directory holds a result for the manifest, of either kind
Cached(data) == DlConfigPath(data) \in DOMAIN call.dir

Parses(data) == Cached(data) /\ call.dir[DlConfigPath(data)] = "result"

\* What is said of the filtering whether or not the download succeeded
FilterRule ==
    /\ \A i \in DOMAIN call.manifests :
          LET data == call.manifests[i]
          IN  /\ Scheduled(data) <=> (~Skipped(data) /\ (~Cached(data) \/ ~Parses(data)))
              /\ Parses(data) => ~Scheduled(data)
    /\ \A i, j \in DOMAIN call.build_requests :
          call.build_requests[i] = call.build_requests[j] => i = j
    /\ Len(call.errors) =
          Cardinality({i \in DOMAIN call.manifests :
                         ~Skipped(call.manifests[i]) /\ Cached(call.manifests[i])
                         /\ ~Parses(call.manifests[i])})

\* C28: a build is scheduled exactly when its image type is not skipped
\* and its result is missing or does not parse (an error is then
\* recorded), a manifest whose result parses is never scheduled, no
\* manifest is scheduled twice, and after a failed download every
\* manifest that is not skipped is scheduled.
C28_FailedDownloadSchedulesAll ==
    Filtered =>
        /\ FilterRule
        /\ ~call.ok => \A i \in DOMAIN call.manifests :
                          ~Skipped(call.manifests[i]) => Scheduled(call.manifests[i])

\* C28, as the code has it: the same rule whether the download succeeded
\* or failed; after a failed download the manifests are filtered against
\* the files the download directory holds, and the manifests scheduled are
\* those not skipped whose result is not among them or does not parse.
C28_FilterRule ==
    Filtered =>
        /\ FilterRule
        /\ \A i \in DOMAIN call.manifests :
              (~Skipped(call.manifests[i]) /\ ~Cached(call.manifests[i]))
                 => Scheduled(call.manifests[i])
        /\ call.dir = EmptyMap =>
              \A i \in DOMAIN call.manifests :
                 ~Skipped(call.manifests[i]) => Scheduled(call.manifests[i])

\* The download failed and left the result of one of three manifests: that
\* manifest is not scheduled, the skipped one neither, the third is, with
\* an error for its corrupt result.
C28_Witness ==
    /\ Filtered
    /\ ~call.ok
    /\ Len(call.manifests) = 3
    /\ \E i \in DOMAIN call.manifests : Skipped(call.manifests[i])
    /\ \E i \in DOMAIN call.manifests :
          ~Skipped(call.manifests[i]) /\ Parses(call.manifests[i])
    /\ Len(call.build_requests) = 1
    /\ Len(call.errors) = 1

NamesMatch == \A i \in DOMAIN call.configs : call.configs[i].stem = call.configs[i].name

\* The distros of the runs whose name contains "rhel"
RhelDistros == {"rhel-9.2"}

\* C29: when a test config's name differs from its file stem the run
\* exits with status 1, the output file not opened and no manifest
\* generated; a run that ends with status 0 has written exactly the null
\* configuration when nothing was scheduled, and otherwise the base
\* configuration followed by one job per scheduled build, in order, each
\* job named after its build and on the internal network exactly for the
\* distros with "rhel" in their name; the file is then never empty.
C29_GeneratedPipeline ==
    (call.fn = "main" /\ pc = "exited") =>
        /\ ~NamesMatch =>
              /\ call.exit = 1
              /\ IsNil(call.writes)
              /\ ~call.generated
        /\ call.exit = 0 =>
              /\ NamesMatch
              /\ ~IsNil(call.writes)
              /\ Concat(Deref(call.writes)) # ""
              /\ IF Len(call.build_requests) = 0
                 THEN Deref(call.writes) = <<NULL_CONFIG>>
                 ELSE LET writes == Deref(call.writes)
                      IN  /\ Len(writes) = 1 + Len(call.build_requests)
                          /\ writes[1] = BASE_CONFIG
                          /\ \A i \in DOMAIN call.build_requests :
                                LET build == call.build_requests[i]
                                    job == writes[i + 1]
                                IN  /\ HasPrefix(job,
                                         "\nbuild/" \o build.distro \o "/" \o build.arch
                                         \o "/" \o build.imageType \o "/"
                                         \o build.config.name \o ":\n")
                                    /\ HasSuffix(job, "INTERNAL_NETWORK: \"true\"\n")
                                         <=> build.distro \in RhelDistros
                                    /\ HasSuffix(job, "INTERNAL_NETWORK: \"false\"\n")
                                         <=> build.distro \notin RhelDistros

\* A run wrote the base configuration and two jobs, the first of them not
\* on the internal network, the second on it.
C29_Witness ==
    /\ call.fn = "main"
    /\ pc = "exited"
    /\ call.exit = 0
    /\ Len(call.build_requests) = 2
    /\ call.build_requests[1].distro = "fedora-39"
    /\ call.build_requests[2].distro = "rhel-9.2"
    /\ Len(Deref(call.writes)) = 3
    /\ HasSuffix(Deref(call.writes)[3], "INTERNAL_NETWORK: \"true\"\n")
====
